---------------------------- MODULE Spec2Model ----------------------------
(***************************************************************************)
(* A model of polymer-build's BuildAnalyzer / StreamLoader (analyzer.ts): *)
(* the source pipeline (vinyl enumeration -> ResolveTransform ->          *)
(* AnalyzeTransform), the dependencies pipeline (PassThrough ->           *)
(* VinylReaderTransform -> ResolveTransform), the deferred-load table of  *)
(* the StreamLoader, the dependency index and the completion check _done. *)
(* One action is one turn of the event loop: a handler runs to its next   *)
(* await.                                                                 *)
(***************************************************************************)
EXTENDS Naturals, Sequences, FiniteSets, TLC

(***************************************************************************)
(* Bounds of the model.                                                    *)
(***************************************************************************)
\* how many times StreamLoader.load is called in one run
MaxLoads == 2
\* how long a list of depsToFragments grows under direct calls
MaxEntries == 3
\* how many reference features a document has under direct calls
MaxFeatures == 3
\* how many characters a path or a url given to the path transformers has
MaxPathLen == 5
\* how many calls of startAnalysis, sources and dependencies a caller makes
MaxCalls == 3
\* how many files pass through SourceDependenciesStream
MaxFiles == 3
\* how many nodes a document given to compileJavaScriptInHTML has
MaxNodes == 3

(***************************************************************************)
(* The project: ids (resolved urls), the configuration, the disk.          *)
(***************************************************************************)
Urls == {"a", "b", "c", "d"}

\* config.allFragments (entrypoint, shell, fragments), as resolved urls
Fragments == {"a", "b"}

\* config.isSource(path): the path matches one of config.sources
IsSource(u) == u \in {"a", "b", "c"}

\* config.isFragment(path)
IsFragment(u) == u \in Fragments

\* the disks a run may start from: every file present, or some missing
Disks == { Urls, Urls \ {"b"}, Urls \ {"c"}, Urls \ {"d"}, Urls \ {"c", "d"} }

None == "none"
Absent == "absent"
Client == "client"

\* file.contents of a file read from disk
DiskContent(u) == "disk"

\* a vinyl File object: the id of its path, its contents, and which File of
\* that id it is (every read makes a new object)
File(u, c, n) == [url |-> u, contents |-> c, n |-> n]

\* this.files.get(url) of an id that is not in the map
NoFile == File(None, Absent, 0)

\* the File that the n-th read of u from disk makes
ReadFile(u, n) == File(u, DiskContent(u), n)

(***************************************************************************)
(* Errors, as (kind, url, n), with the message of the analyzer where the   *)
(* error quotes it.                                                        *)
(***************************************************************************)
Err(kind, url, n) == [kind |-> kind, url |-> url, n |-> n, msg |-> None]
NoErr == Err("none", None, 0)
\* new Error(`Not found: ${url}`), of onSourcesStreamComplete and _done
NotFound(u) == Err("NotFound", u, 0)
\* new Error(`Not found: "${url}"`), of sourceUrlAnalyzed
NotFoundQuoted(u) == Err("NotFoundQuoted", u, 0)
\* new Error(`${errorWarningCount} error(s) occurred during build.`)
SeverityError(n) == Err("Severity", None, n)
\* result.error.message of an analysis that produced no document
AnalyzerMessages == {"", "parse error"}

\* const message = result.error.message || 'unknown'
MessageOrUnknown(m) == IF m = "" THEN "unknown" ELSE m

\* new Error(`Unable to get document ${url}: ${message}`)
AnalysisError(u, m) ==
  [Err("Analysis", u, 0) EXCEPT !.msg = MessageOrUnknown(m)]
\* new Error(`Dependency analysis incorrectly called for ${url}`)
IncorrectlyCalled(u) == Err("IncorrectlyCalled", u, 0)
\* the file-system error of a failed read in VinylReaderTransform
ReadError(u) == Err("ENOENT", u, 0)
\* an error event of the vinyl source stream
EnumerationError == Err("Enumeration", None, 0)
\* Readable.push() after the stream was ended
PushAfterEnd(u) == Err("PushAfterEOF", u, 0)

(***************************************************************************)
(* Warnings of the external analyzer: (id, severity, code).                *)
(***************************************************************************)
Warning(id, sev, code) == [id |-> id, severity |-> sev, code |-> code]
W_e1 == Warning("e1", "ERROR", "could-not-load")
W_e2 == Warning("e2", "ERROR", "parse-error")
W_ig == Warning("ig", "ERROR", "ignored-code")
W_wn == Warning("wn", "WARNING", "lint")
W_in == Warning("in", "INFO", "note")
W_w2 == Warning("w2", "WARNING", "style")

\* lintOptions.ignoreWarnings
WarningCodesToIgnore == {"ignored-code"}

\* what doc.getWarnings({imported: true}) may return
WarningSets ==
  { {}, {W_e1, W_e2, W_wn, W_ig, W_in}, {W_wn, W_w2, W_in} }

\* WarningFilter.shouldIgnore with minimumSeverity: Severity.WARNING
ShouldIgnore(w) ==
  \/ w.code \in WarningCodesToIgnore
  \/ w.severity = "INFO"


(***************************************************************************)
(* Reference features of the external analyzer: (url, type).               *)
(***************************************************************************)
Feature(u, t) == [url |-> u, type |-> t]
External == "x"

\* this.analyzer.resolveUrl(importUrl) is defined: the url is inside the package
Resolvable(u) == u \in Urls

\* what doc.getFeatures({kind: 'import', externalPackages: true, imported: true})
\* may return for a document
FeatureLists ==
  { << Feature("b", "html-import"), Feature("d", "html-style"),
       Feature("c", "html-import"), Feature("b", "html-import") >>,
    << Feature("c", "html-import"), Feature("d", "html-script"),
       Feature(External, "html-import"), Feature("a", "css-import") >> }

\* an add that keeps duplicates
SetAdd_KeepsDuplicates(s, x) == Append(s, x)

\* Set.add followed by Array.from: insertion order, no duplicates
SetAdd(s, x) == IF \E i \in 1..Len(s) : s[i] = x THEN s ELSE Append(s, x)

DocumentDeps(imports, scripts, styles) ==
  [imports |-> imports, scripts |-> scripts, styles |-> styles]

RECURSIVE ClassifyFeatures(_, _)
ClassifyFeatures(fs, deps) ==
  IF fs = << >> THEN deps
  ELSE LET f == Head(fs)
           next ==
             IF ~Resolvable(f.url) THEN deps
             ELSE IF f.type = "html-script"
               THEN [deps EXCEPT !.scripts = SetAdd(@, f.url)]
             ELSE IF f.type = "html-style"
               THEN [deps EXCEPT !.styles = SetAdd(@, f.url)]
             ELSE IF f.type = "html-import"
               THEN [deps EXCEPT !.imports = SetAdd(@, f.url)]
             ELSE deps
       IN ClassifyFeatures(Tail(fs), next)

\* the deps that _getDependencies builds from the document's features
GetDependencies(fs) == ClassifyFeatures(fs, DocumentDeps(<< >>, << >>, << >>))

(***************************************************************************)
(* The dependency index.                                                   *)
(***************************************************************************)
\* the id that _addDependencies puts on the reverse list of import d while
\* recording fragment f: inside the forEach callback `url` is the import
EntrypointListEntry(f, d) == d

\* an _addDependencies that accepts every id
AddDependenciesThrows_Never(pending, f) == FALSE

\* _addDependencies(url, deps) throws: !this.allFragmentsToAnalyze.has(url)
AddDependenciesThrows(pending, f) == f \notin pending

RECURSIVE AddToDepsToFragments(_, _, _)
AddToDepsToFragments(d2f, f, imports) ==
  IF imports = << >> THEN d2f
  ELSE LET d == Head(imports)
       IN AddToDepsToFragments(
            [d2f EXCEPT ![d] = Append(@, EntrypointListEntry(f, d))],
            f, Tail(imports))

(***************************************************************************)
(* Warnings count.                                                         *)
(***************************************************************************)
\* a count that does not look at the severity
CountWarnings_AnySeverity(ws, sev) == Cardinality(ws)

\* countWarningsByType().get(severity)
CountWarningsByType(ws, sev) == Cardinality({w \in ws : w.severity = sev})

(***************************************************************************)
(* Promises returned by StreamLoader.load.                                 *)
(***************************************************************************)
Promise(u, owner, st, val, err) ==
  [url |-> u, owner |-> owner, st |-> st, val |-> val, err |-> err]

\* deferredCallbacks.resolve(contents) / .reject(err): a settled promise
\* stays as it is
Settle(ps, p, st, val, err) ==
  IF ps[p].st = "pending"
  THEN [ps EXCEPT ![p] = [@ EXCEPT !.st = st, !.val = val, !.err = err]]
  ELSE ps

(***************************************************************************)
(* StreamLoader.deferredFiles, a Map kept in insertion order: a sequence   *)
(* of (url, p), p the promise whose callbacks are registered.              *)
(***************************************************************************)
DeferredKeys(df) == {df[i].url : i \in 1..Len(df)}

\* hasDeferredFile(url)
HasDeferredFile(df, u) == u \in DeferredKeys(df)

\* deferredFiles.get(url), 0 when there is none
DeferredGet(df, u) ==
  IF HasDeferredFile(df, u)
  THEN df[CHOOSE i \in 1..Len(df) : df[i].url = u].p
  ELSE 0

\* deferredFiles.set(url, {resolve, reject}): a key that is present keeps
\* its place and gets the new callbacks
DeferredSet(df, u, p) ==
  IF HasDeferredFile(df, u)
  THEN [i \in 1..Len(df) |-> IF df[i].url = u THEN [url |-> u, p |-> p] ELSE df[i]]
  ELSE Append(df, [url |-> u, p |-> p])

\* a delete that leaves the entry in the Map
DeferredDelete_Keeps(df, u) == df

\* deferredFiles.delete(url)
DeferredDelete(df, u) == SelectSeq(df, LAMBDA e : e.url # u)

VARIABLES
  onDisk,                \* the files that exist under the root
  started,               \* BuildAnalyzer.started
  sourceFilesLoaded,     \* BuildAnalyzer.sourceFilesLoaded
  files,                 \* BuildAnalyzer.files: id -> File, or NoFile
  warnings,              \* BuildAnalyzer.warnings
  allFragmentsToAnalyze, \* BuildAnalyzer.allFragmentsToAnalyze
  depsToFragments,       \* _dependencyAnalysis.depsToFragments (<< >>: no entry)
  fragmentToDeps,        \* _dependencyAnalysis.fragmentToDeps
  fragmentToFullDeps,    \* _dependencyAnalysis.fragmentToFullDeps
  resolved,              \* how often _resolveDependencyAnalysis was called
  deferredFiles,         \* StreamLoader.deferredFiles: (id, promise), in Map order
  promises,              \* the promises StreamLoader.load has returned
  srcState,              \* _sourcesStream + ResolveTransform: idle/open/ended/error
  enumerated,            \* the source files that went through ResolveTransform
  analyzeQueue,          \* files written to AnalyzeTransform, not yet taken
  cur,                   \* the fragment analyzeFile is awaiting analysis of
  analyzeState,          \* AnalyzeTransform: running/failed/ended
  sourcesOut,            \* files emitted on _sourcesProcessingStream
  srcErrors,             \* errors emitted on _sourcesProcessingStream
  depQueue,              \* paths pushed into _dependenciesStream, not yet read
  pushed,                \* every push into _dependenciesStream, in order
  depEnded,              \* _dependenciesStream.end() was called
  depState,              \* VinylReaderTransform + ResolveTransform: running/failed/ended
  depsOut,               \* files emitted on _dependenciesProcessingStream
  depErrors,             \* errors emitted on _dependenciesProcessingStream
  doneCalls,             \* how often _done ran
  importFeatures,        \* _getDependencies called directly: the features
  documentDeps,          \* _getDependencies called directly: the deps returned
  thrown,                \* _addDependencies called directly: the error thrown
  bundler,               \* BuildBundler: the two file maps and the report
  paths,                 \* path-transformers called directly: input and results
  client,                \* the caller of startAnalysis, sources, dependencies
  depStream,             \* SourceDependenciesStream (streams.ts)
  htmlDoc                \* compileJavaScriptInHTML: the document and the result

vars == << onDisk, started, sourceFilesLoaded, files, warnings,
           allFragmentsToAnalyze, depsToFragments, fragmentToDeps,
           fragmentToFullDeps, resolved, deferredFiles, promises, srcState,
           enumerated, analyzeQueue, cur, analyzeState, sourcesOut, srcErrors,
           depQueue, pushed, depEnded, depState, depsOut, depErrors,
           doneCalls, importFeatures, documentDeps, thrown, bundler, paths,
           client, depStream, htmlDoc >>

\* the constructor of BuildAnalyzer and StreamLoader, over the disk given
Constructed ==
  /\ started = FALSE
  /\ sourceFilesLoaded = FALSE
  /\ files = [u \in Urls |-> NoFile]
  /\ warnings = {}
  /\ allFragmentsToAnalyze = Fragments
  /\ depsToFragments = [u \in Urls |-> << >>]
  /\ fragmentToDeps = << >>
  /\ fragmentToFullDeps = << >>
  /\ resolved = 0
  /\ deferredFiles = << >>
  /\ promises = << >>
  /\ srcState = "idle"
  /\ enumerated = {}
  /\ analyzeQueue = << >>
  /\ cur = None
  /\ analyzeState = "running"
  /\ sourcesOut = << >>
  /\ srcErrors = << >>
  /\ depQueue = << >>
  /\ pushed = << >>
  /\ depEnded = FALSE
  /\ depState = "running"
  /\ depsOut = << >>
  /\ depErrors = << >>
  /\ doneCalls = 0

\* no method was called directly yet
NoDirectCall ==
  /\ importFeatures = << >>
  /\ documentDeps = << >>
  /\ thrown = NoErr
  /\ bundler = << >>
  /\ paths = << >>
  /\ client = << >>
  /\ depStream = << >>
  /\ htmlDoc = << >>

Init ==
  /\ onDisk \in Disks
  /\ Constructed
  /\ NoDirectCall


(***************************************************************************)
(* resolveFile / addFile                                                   *)
(***************************************************************************)
\* addFile(file): this.files.set(url, file)
AddFile(fs, u, file) == [fs EXCEPT ![u] = file]

\* resolveDeferredFile(url, file), called when hasDeferredFile(url):
\* deferredCallbacks.resolve(file.contents.toString())
ResolveDeferredPromises(ps, df, u, file) ==
  IF HasDeferredFile(df, u)
  THEN Settle(ps, DeferredGet(df, u), "resolved", file.contents, NoErr)
  ELSE ps

\* rejectDeferredFile(url, err)
RejectDeferredPromises(ps, df, u, err) ==
  Settle(ps, DeferredGet(df, u), "rejected", Absent, err)

\* resolveFile(file) for the file of id u
ResolveFile(u, file) ==
  /\ files' = AddFile(files, u, file)
  /\ promises' = ResolveDeferredPromises(promises, deferredFiles, u, file)
  /\ deferredFiles' = DeferredDelete(deferredFiles, u)

\* every variable but depStream
AllButDepStream ==
  << onDisk, bundler, paths, client, htmlDoc, importFeatures, documentDeps,
     thrown, started, sourceFilesLoaded, files, warnings,
     allFragmentsToAnalyze, depsToFragments, fragmentToDeps,
     fragmentToFullDeps, resolved, deferredFiles, promises, srcState,
     enumerated, analyzeQueue, cur, analyzeState, sourcesOut, srcErrors,
     depQueue, pushed, depEnded, depState, depsOut, depErrors, doneCalls >>

\* every variable but htmlDoc
AllButHtmlDoc ==
  << onDisk, bundler, paths, client, depStream, importFeatures, documentDeps,
     thrown, started, sourceFilesLoaded, files, warnings,
     allFragmentsToAnalyze, depsToFragments, fragmentToDeps,
     fragmentToFullDeps, resolved, deferredFiles, promises, srcState,
     enumerated, analyzeQueue, cur, analyzeState, sourcesOut, srcErrors,
     depQueue, pushed, depEnded, depState, depsOut, depErrors, doneCalls >>

\* every variable but client
AllButClient ==
  << onDisk, bundler, paths, depStream, htmlDoc, importFeatures, documentDeps,
     thrown, started, sourceFilesLoaded, files, warnings,
     allFragmentsToAnalyze, depsToFragments, fragmentToDeps,
     fragmentToFullDeps, resolved, deferredFiles, promises, srcState,
     enumerated, analyzeQueue, cur, analyzeState, sourcesOut, srcErrors,
     depQueue, pushed, depEnded, depState, depsOut, depErrors, doneCalls >>

(***************************************************************************)
(* startAnalysis                                                           *)
(***************************************************************************)
\* the body of startAnalysis after its test of this.started
SetUp ==
  /\ started' = TRUE
  /\ srcState' = "open"
  /\ UNCHANGED << onDisk, bundler, paths, depStream, htmlDoc,
                  importFeatures, documentDeps, thrown,
                  sourceFilesLoaded, files, warnings,
                  allFragmentsToAnalyze, depsToFragments, fragmentToDeps,
                  fragmentToFullDeps, resolved, deferredFiles, promises,
                  enumerated, analyzeQueue, cur, analyzeState, sourcesOut,
                  srcErrors, depQueue, pushed, depEnded, depState, depsOut,
                  depErrors, doneCalls >>

StartAnalysis ==
  /\ ~started
  /\ SetUp
  /\ UNCHANGED client

(***************************************************************************)
(* The sources pipeline.                                                   *)
(***************************************************************************)
\* the files the vinyl source stream emits: the files on disk that match
\* config.sources, each once
SourceFilesOnDisk == {u \in onDisk : IsSource(u)}

\* a transform that takes no input while an analysis is awaited
TransformAccepts_WhenIdle(queue) == cur = None

\* AsyncTransformStream._transform: the stream hands every input it is
\* written to the queue that _transformIter reads, however many are waiting
TransformAccepts(queue) == TRUE

\* ResolveTransform of the sources pipeline takes the next enumerated file:
\* resolveFile(file), then the file is written to AnalyzeTransform (while
\* the pipe to it is intact: an 'error' event on the destination unpipes)
ResolveSourceFile(u) ==
  /\ started
  /\ srcState = "open"
  /\ u \in SourceFilesOnDisk \ enumerated
  /\ TransformAccepts(analyzeQueue)
  /\ ResolveFile(u, ReadFile(u, 1))
  /\ enumerated' = enumerated \cup {u}
  /\ analyzeQueue' = IF srcErrors = << >> THEN Append(analyzeQueue, u)
                     ELSE analyzeQueue
  /\ UNCHANGED << onDisk, bundler, paths, client, depStream, htmlDoc, importFeatures, documentDeps, thrown,
                  started, sourceFilesLoaded, warnings,
                  allFragmentsToAnalyze, depsToFragments, fragmentToDeps,
                  fragmentToFullDeps, resolved, srcState, cur, analyzeState,
                  sourcesOut, srcErrors, depQueue, pushed, depEnded, depState,
                  depsOut, depErrors, doneCalls >>

\* a check that takes every pending id for a missing source
IsMissingSource_Any(u) == TRUE

\* the pending ids that onSourcesStreamComplete rejects
IsMissingSource(u) == IsSource(u)

RECURSIVE RejectAll(_, _, _)
RejectAll(ps, df, us) ==
  IF us = << >> THEN ps
  ELSE RejectAll(RejectDeferredPromises(ps, df, Head(us), NotFound(Head(us))),
                 df, Tail(us))

\* the keys of the Map, in order
DeferredUrls(df) == [i \in 1..Len(df) |-> df[i].url]

\* 'end' of the sources ResolveTransform: onSourcesStreamComplete()
OnSourcesStreamComplete ==
  /\ srcState = "open"
  /\ enumerated = SourceFilesOnDisk
  /\ LET missing == SelectSeq(DeferredUrls(deferredFiles), IsMissingSource)
     IN /\ promises' = RejectAll(promises, deferredFiles, missing)
        /\ deferredFiles' =
             SelectSeq(deferredFiles, LAMBDA e : ~IsMissingSource(e.url))
  /\ sourceFilesLoaded' = TRUE
  /\ srcState' = "ended"
  /\ UNCHANGED << onDisk, bundler, paths, client, depStream, htmlDoc, importFeatures, documentDeps, thrown,
                  started, files, warnings, allFragmentsToAnalyze,
                  depsToFragments, fragmentToDeps, fragmentToFullDeps,
                  resolved, enumerated, analyzeQueue, cur, analyzeState,
                  sourcesOut, srcErrors, depQueue, pushed, depEnded, depState,
                  depsOut, depErrors, doneCalls >>

\* 'error' of the vinyl source stream, forwarded to _sourcesProcessingStream
SourcesStreamError ==
  /\ srcState = "open"
  /\ srcState' = "error"
  /\ srcErrors' = Append(srcErrors, EnumerationError)
  /\ UNCHANGED << onDisk, bundler, paths, client, depStream, htmlDoc, importFeatures, documentDeps, thrown,
                  started, sourceFilesLoaded, files, warnings,
                  allFragmentsToAnalyze, depsToFragments, fragmentToDeps,
                  fragmentToFullDeps, resolved, deferredFiles, promises,
                  enumerated, analyzeQueue, cur, analyzeState, sourcesOut,
                  depQueue, pushed, depEnded, depState, depsOut, depErrors,
                  doneCalls >>

\* AnalyzeTransform takes the next file, which is no fragment: analyzeFile
\* returns at once and the file is yielded
AnalyzePassFile ==
  /\ analyzeState = "running"
  /\ cur = None
  /\ analyzeQueue # << >>
  /\ ~IsFragment(Head(analyzeQueue))
  /\ analyzeQueue' = Tail(analyzeQueue)
  /\ sourcesOut' = Append(sourcesOut, Head(analyzeQueue))
  /\ UNCHANGED << onDisk, bundler, paths, client, depStream, htmlDoc, importFeatures, documentDeps, thrown,
                  started, sourceFilesLoaded, files, warnings,
                  allFragmentsToAnalyze, depsToFragments, fragmentToDeps,
                  fragmentToFullDeps, resolved, deferredFiles, promises,
                  srcState, enumerated, cur, analyzeState, srcErrors,
                  depQueue, pushed, depEnded, depState, depsOut, depErrors,
                  doneCalls >>

\* an AnalyzeTransform that is given the same file again
AnalyzeFileStart_KeepsFile ==
  /\ analyzeState = "running"
  /\ cur = None
  /\ analyzeQueue # << >>
  /\ IsFragment(Head(analyzeQueue))
  /\ cur' = Head(analyzeQueue)
  /\ UNCHANGED << onDisk, bundler, paths, client, depStream, htmlDoc, importFeatures, documentDeps, thrown,
                  started, sourceFilesLoaded, files, warnings,
                  allFragmentsToAnalyze, depsToFragments, fragmentToDeps,
                  fragmentToFullDeps, resolved, deferredFiles, promises,
                  srcState, enumerated, analyzeQueue, analyzeState,
                  sourcesOut, srcErrors, depQueue, pushed, depEnded, depState,
                  depsOut, depErrors, doneCalls >>

\* an AnalyzeTransform that does not await analyzeFile before it takes the
\* next file
AnalyzeFileStart_NotAwaited ==
  /\ analyzeState = "running"
  /\ analyzeQueue # << >>
  /\ IsFragment(Head(analyzeQueue))
  /\ analyzeQueue' = Tail(analyzeQueue)
  /\ cur' = Head(analyzeQueue)
  /\ UNCHANGED << onDisk, bundler, paths, client, depStream, htmlDoc, importFeatures, documentDeps, thrown,
                  started, sourceFilesLoaded, files, warnings,
                  allFragmentsToAnalyze, depsToFragments, fragmentToDeps,
                  fragmentToFullDeps, resolved, deferredFiles, promises,
                  srcState, enumerated, analyzeState, sourcesOut, srcErrors,
                  depQueue, pushed, depEnded, depState, depsOut, depErrors,
                  doneCalls >>

\* AnalyzeTransform takes the next file, a fragment: analyzeFile calls
\* _getDependencies(url), which awaits this.analyzer.analyze([url])
AnalyzeFileStart ==
  /\ analyzeState = "running"
  /\ cur = None
  /\ analyzeQueue # << >>
  /\ IsFragment(Head(analyzeQueue))
  /\ analyzeQueue' = Tail(analyzeQueue)
  /\ cur' = Head(analyzeQueue)
  /\ UNCHANGED << onDisk, bundler, paths, client, depStream, htmlDoc, importFeatures, documentDeps, thrown,
                  started, sourceFilesLoaded, files, warnings,
                  allFragmentsToAnalyze, depsToFragments, fragmentToDeps,
                  fragmentToFullDeps, resolved, deferredFiles, promises,
                  srcState, enumerated, analyzeState, sourcesOut, srcErrors,
                  depQueue, pushed, depEnded, depState, depsOut, depErrors,
                  doneCalls >>

\* the input of AnalyzeTransform has ended and every file was yielded
AnalyzeTransformEnd ==
  /\ analyzeState = "running"
  /\ cur = None
  /\ analyzeQueue = << >>
  /\ srcState = "ended"
  /\ srcErrors = << >>
  /\ analyzeState' = "ended"
  /\ UNCHANGED << onDisk, bundler, paths, client, depStream, htmlDoc, importFeatures, documentDeps, thrown,
                  started, sourceFilesLoaded, files, warnings,
                  allFragmentsToAnalyze, depsToFragments, fragmentToDeps,
                  fragmentToFullDeps, resolved, deferredFiles, promises,
                  srcState, enumerated, analyzeQueue, cur, sourcesOut,
                  srcErrors, depQueue, pushed, depEnded, depState, depsOut,
                  depErrors, doneCalls >>

(***************************************************************************)
(* StreamLoader.load                                                       *)
(***************************************************************************)
\* a store that never has the file
FileStoreHit_Never(u) == FALSE

\* load(url): const file = this._buildAnalyzer.files.get(url); if (file)
FileStoreHit(u) == files[u] # NoFile

\* a sourceUrlAnalyzed that never throws
SourceUrlAnalyzedThrows_Never == FALSE

\* sourceUrlAnalyzed(url) throws
SourceUrlAnalyzedThrows == sourceFilesLoaded

\* a dependencyUrlAnalyzed that pushes nothing
DependencyUrlPushed_Never(u) == FALSE

\* dependencyUrlAnalyzed(url) pushes the path into _dependenciesStream
DependencyUrlPushed(u) == files[u] = NoFile

\* the caller of load: the analysis in flight, or another user of the loader
\* (the bundler's forked analyzer falls back to it)
Requester == IF cur # None THEN cur ELSE Client

\* the ids whose content is requested in a run: a declared source that is
\* no fragment, and a dependency
Requested == {"c", "d"}

\* load(url), however many requests came before
LoadRequest(u) ==
  /\ started
  /\ LET p == Len(promises) + 1 IN
     IF FileStoreHit(u)
     THEN \* return file.contents.toString()
          /\ promises' = Append(promises,
               Promise(u, Requester, "resolved", files[u].contents, NoErr))
          /\ UNCHANGED << deferredFiles, depQueue, pushed, depErrors >>
     ELSE IF IsSource(u)
     THEN IF SourceUrlAnalyzedThrows
          THEN \* catch (err) { this.rejectDeferredFile(url, err) }
               /\ promises' = Append(promises,
                    Promise(u, Requester, "rejected", Absent, NotFoundQuoted(u)))
               /\ deferredFiles' =
                    DeferredDelete(DeferredSet(deferredFiles, u, p), u)
               /\ UNCHANGED << depQueue, pushed, depErrors >>
          ELSE /\ promises' = Append(promises,
                    Promise(u, Requester, "pending", Absent, NoErr))
               /\ deferredFiles' = DeferredSet(deferredFiles, u, p)
               /\ UNCHANGED << depQueue, pushed, depErrors >>
     ELSE /\ promises' = Append(promises,
               Promise(u, Requester, "pending", Absent, NoErr))
          /\ deferredFiles' = DeferredSet(deferredFiles, u, p)
          /\ IF ~DependencyUrlPushed(u)
             THEN UNCHANGED << depQueue, pushed, depErrors >>
             ELSE IF depEnded
             THEN \* push() after end(): an 'error' event, forwarded
                  /\ depErrors' = Append(depErrors, PushAfterEnd(u))
                  /\ UNCHANGED << depQueue, pushed >>
             ELSE /\ depQueue' = Append(depQueue, u)
                  /\ pushed' = Append(pushed, u)
                  /\ UNCHANGED depErrors
  /\ UNCHANGED << onDisk, bundler, paths, client, depStream, htmlDoc, importFeatures, documentDeps, thrown,
                  started, sourceFilesLoaded, files, warnings,
                  allFragmentsToAnalyze, depsToFragments, fragmentToDeps,
                  fragmentToFullDeps, resolved, srcState, enumerated,
                  analyzeQueue, cur, analyzeState, sourcesOut, srcErrors,
                  depEnded, depState, depsOut, doneCalls >>

\* load(url), one of the MaxLoads requests of a run
Load(u) ==
  /\ Len(promises) < MaxLoads
  /\ LoadRequest(u)

(***************************************************************************)
(* The completion check.                                                   *)
(***************************************************************************)
\* a _done that does not look at the deferred files
DoneBranch_NoDeferredCheck(ws, df) ==
  IF CountWarningsByType(ws, "ERROR") > 0 THEN "errors" ELSE "success"

\* a _done that a warning of any severity stops
DoneBranch_AnyWarningBlocks(ws, df) ==
  IF ws # {} THEN "errors"
  ELSE IF df # << >> THEN "deferred"
  ELSE "success"

\* which way _done goes
DoneBranch(ws, df) ==
  IF CountWarningsByType(ws, "ERROR") > 0 THEN "errors"
  ELSE IF df # << >> THEN "deferred"
  ELSE "success"

\* the pending ids _done rejects: the loop returns after the first key
DoneRejects(df) == << df[1].url >>

\* _done(), with the warnings as they are after this analysis
Done(ws) ==
  LET n == CountWarningsByType(ws, "ERROR")
      branch == DoneBranch(ws, deferredFiles)
      rejects == IF branch = "deferred" THEN DoneRejects(deferredFiles)
                 ELSE << >>
  IN /\ doneCalls' = doneCalls + 1
     \* emitAnalysisError(err)
     /\ depErrors' = IF branch = "errors"
                     THEN Append(depErrors, SeverityError(n)) ELSE depErrors
     /\ promises' = RejectAll(promises, deferredFiles, rejects)
     /\ deferredFiles' =
          SelectSeq(deferredFiles,
                    LAMBDA e : \A i \in 1..Len(rejects) : rejects[i] # e.url)
     /\ depEnded' = (depEnded \/ branch = "success")
     /\ resolved' = IF branch = "success" THEN resolved + 1 ELSE resolved

\* the errors _done emits on _sourcesProcessingStream
DoneSourceErrors(ws) ==
  IF DoneBranch(ws, deferredFiles) = "errors"
  THEN << SeverityError(CountWarningsByType(ws, "ERROR")) >>
  ELSE << >>

(***************************************************************************)
(* analyzeFile, after the analysis has settled.                            *)
(***************************************************************************)
\* an analyzer that does not wait for the content it asked for
AnalysisRequestsSettled_NoWait == TRUE

\* the analyzer settles an analysis once none of the content requests it made
\* for it is pending
AnalysisRequestsSettled ==
  \A i \in 1..Len(promises) :
    promises[i].owner = cur => promises[i].st # "pending"

\* an _addDependencies that sets fragmentToDeps only
RecordDependencies_ImportsOnly(f, deps) ==
  /\ fragmentToFullDeps' = fragmentToFullDeps
  /\ fragmentToDeps' = (f :> deps.imports) @@ fragmentToDeps
  /\ depsToFragments' =
       AddToDepsToFragments(depsToFragments, f, deps.imports)

\* _addDependencies(url, deps), past its check: the three maps of
\* _dependencyAnalysis
RecordDependencies(f, deps) ==
  /\ fragmentToFullDeps' = (f :> deps) @@ fragmentToFullDeps
  /\ fragmentToDeps' = (f :> deps.imports) @@ fragmentToDeps
  /\ depsToFragments' =
       AddToDepsToFragments(depsToFragments, f, deps.imports)

\* analyzer.analyze settles with a document: _getDependencies returns deps,
\* then _addDependencies(url, deps), allFragmentsToAnalyze.delete(url) and,
\* with no fragment left, _done(); the file is yielded
AnalysisSucceeds(fs, ws) ==
  /\ analyzeState = "running"
  /\ cur # None
  /\ AnalysisRequestsSettled
  /\ LET deps == GetDependencies(fs)
         kept == warnings \cup {w \in ws : ~ShouldIgnore(w)}
         left == allFragmentsToAnalyze \ {cur}
     IN /\ warnings' = kept
        /\ IF AddDependenciesThrows(allFragmentsToAnalyze, cur)
           THEN \* throw new Error(`Dependency analysis incorrectly called ...`)
                /\ srcErrors' = Append(srcErrors, IncorrectlyCalled(cur))
                /\ analyzeState' = "failed"
                /\ UNCHANGED << allFragmentsToAnalyze, depsToFragments,
                                fragmentToDeps, fragmentToFullDeps, resolved,
                                deferredFiles, promises, sourcesOut, depEnded,
                                depErrors, doneCalls >>
           ELSE /\ RecordDependencies(cur, deps)
                /\ allFragmentsToAnalyze' = left
                /\ IF left = {}
                   THEN /\ Done(kept)
                        /\ srcErrors' = srcErrors \o DoneSourceErrors(kept)
                   ELSE UNCHANGED << resolved, deferredFiles, promises,
                                     srcErrors, depEnded, depErrors,
                                     doneCalls >>
                /\ sourcesOut' = Append(sourcesOut, cur)
                /\ UNCHANGED analyzeState
  /\ cur' = None
  /\ UNCHANGED << onDisk, bundler, paths, client, depStream, htmlDoc, importFeatures, documentDeps, thrown,
                  started, sourceFilesLoaded, files, srcState,
                  enumerated, analyzeQueue, depQueue, pushed, depState,
                  depsOut >>

\* an analysis that fails and is taken for complete
AnalysisFails_DeletesFragment(m) ==
  /\ analyzeState = "running"
  /\ cur # None
  /\ AnalysisRequestsSettled
  /\ srcErrors' = Append(srcErrors, AnalysisError(cur, m))
  /\ allFragmentsToAnalyze' = allFragmentsToAnalyze \ {cur}
  /\ analyzeState' = "failed"
  /\ cur' = None
  /\ UNCHANGED << onDisk, bundler, paths, client, depStream, htmlDoc, importFeatures, documentDeps, thrown,
                  started, sourceFilesLoaded, files, warnings,
                  depsToFragments, fragmentToDeps,
                  fragmentToFullDeps, resolved, deferredFiles, promises,
                  srcState, enumerated, analyzeQueue, sourcesOut, depQueue,
                  pushed, depEnded, depState, depsOut, depErrors, doneCalls >>

\* analyzer.analyze settles without a document (result.successful === false):
\* _getDependencies throws, analyzeFile rejects, _transformIter of
\* AnalyzeTransform ends with the error, which the stream emits
AnalysisFails(m) ==
  /\ analyzeState = "running"
  /\ cur # None
  /\ AnalysisRequestsSettled
  /\ srcErrors' = Append(srcErrors, AnalysisError(cur, m))
  /\ analyzeState' = "failed"
  /\ cur' = None
  /\ UNCHANGED << onDisk, bundler, paths, client, depStream, htmlDoc, importFeatures, documentDeps, thrown,
                  started, sourceFilesLoaded, files, warnings,
                  allFragmentsToAnalyze, depsToFragments, fragmentToDeps,
                  fragmentToFullDeps, resolved, deferredFiles, promises,
                  srcState, enumerated, analyzeQueue, sourcesOut, depQueue,
                  pushed, depEnded, depState, depsOut, depErrors, doneCalls >>

(***************************************************************************)
(* The dependencies pipeline.                                              *)
(***************************************************************************)
\* how often VinylReaderTransform has read u
ReadsOf(out, u) == Cardinality({i \in 1..Len(out) : out[i] = u})

\* VinylReaderTransform reads the next pushed path; ResolveTransform then
\* calls resolveFile(file) and yields the file. A failed read ends
\* VinylReaderTransform with the error, forwarded to
\* _dependenciesProcessingStream
DependencyLoad ==
  /\ depState = "running"
  /\ depQueue # << >>
  /\ depQueue' = Tail(depQueue)
  /\ LET u == Head(depQueue) IN
     IF u \in onDisk
     THEN /\ ResolveFile(u, ReadFile(u, ReadsOf(depsOut, u) + 1))
          /\ depsOut' = Append(depsOut, u)
          /\ UNCHANGED << depErrors, depState >>
     ELSE /\ depErrors' = Append(depErrors, ReadError(u))
          /\ depState' = "failed"
          /\ UNCHANGED << files, promises, deferredFiles, depsOut >>
  /\ UNCHANGED << onDisk, bundler, paths, client, depStream, htmlDoc, importFeatures, documentDeps, thrown,
                  started, sourceFilesLoaded, warnings,
                  allFragmentsToAnalyze, depsToFragments, fragmentToDeps,
                  fragmentToFullDeps, resolved, srcState, enumerated,
                  analyzeQueue, cur, analyzeState, sourcesOut, srcErrors,
                  pushed, depEnded, doneCalls >>

\* _dependenciesStream was ended and every pushed path went through
DependenciesEnd ==
  /\ depState = "running"
  /\ depEnded
  /\ depQueue = << >>
  /\ depState' = "ended"
  /\ UNCHANGED << onDisk, bundler, paths, client, depStream, htmlDoc, importFeatures, documentDeps, thrown,
                  started, sourceFilesLoaded, files, warnings,
                  allFragmentsToAnalyze, depsToFragments, fragmentToDeps,
                  fragmentToFullDeps, resolved, deferredFiles, promises,
                  srcState, enumerated, analyzeQueue, cur, analyzeState,
                  sourcesOut, srcErrors, depQueue, pushed, depEnded, depsOut,
                  depErrors, doneCalls >>

(***************************************************************************)
(* The specification.                                                      *)
(***************************************************************************)
Next ==
  \/ StartAnalysis
  \/ \E u \in Urls : ResolveSourceFile(u)
  \/ OnSourcesStreamComplete
  \/ SourcesStreamError
  \/ AnalyzePassFile
  \/ AnalyzeFileStart
  \/ AnalyzeTransformEnd
  \/ \E u \in Requested : Load(u)
  \/ \E fs \in FeatureLists, ws \in WarningSets : AnalysisSucceeds(fs, ws)
  \/ \E m \in AnalyzerMessages : AnalysisFails(m)
  \/ DependencyLoad
  \/ DependenciesEnd

Spec == Init /\ [][Next]_vars

(***************************************************************************)
(* The side channel: addFile called by another stage of the build, for a   *)
(* generated file.                                                         *)
(***************************************************************************)
\* the ids of the files that other stages generate
Generated == {"d"}

\* the File a stage has generated for id u
GeneratedFile(u) == File(u, "generated", 0)

\* an addFile that goes on as resolveFile does
AddFileCall_Resolving(u) ==
  /\ ResolveFile(u, GeneratedFile(u))
  /\ UNCHANGED << onDisk, bundler, paths, client, depStream, htmlDoc, importFeatures, documentDeps, thrown,
                  started, sourceFilesLoaded, warnings,
                  allFragmentsToAnalyze, depsToFragments, fragmentToDeps,
                  fragmentToFullDeps, resolved, srcState, enumerated,
                  analyzeQueue, cur, analyzeState, sourcesOut, srcErrors,
                  depQueue, pushed, depEnded, depState, depsOut, depErrors,
                  doneCalls >>

\* addFile(file), called from outside the two pipelines
AddFileCall(u) ==
  /\ files' = AddFile(files, u, GeneratedFile(u))
  /\ UNCHANGED << onDisk, bundler, paths, client, depStream, htmlDoc, importFeatures, documentDeps, thrown,
                  started, sourceFilesLoaded, warnings,
                  allFragmentsToAnalyze, depsToFragments, fragmentToDeps,
                  fragmentToFullDeps, resolved, deferredFiles, promises,
                  srcState, enumerated, analyzeQueue, cur, analyzeState,
                  sourcesOut, srcErrors, depQueue, pushed, depEnded,
                  depState, depsOut, depErrors, doneCalls >>

\* the runs with a generated file: d is what a stage makes, not on disk
InitSideChannel ==
  /\ Init
  /\ onDisk = Urls \ {"d"}

NextSideChannel ==
  \/ Next
  \/ \E u \in Generated : AddFileCall(u)

SpecSideChannel == InitSideChannel /\ [][NextSideChannel]_vars

(***************************************************************************)
(* _addDependencies and _getDependencies called directly, as a test or     *)
(* another class may call them.                                            *)
(***************************************************************************)
\* an _addDependencies without its check
AddDependenciesCall_Unchecked(f, fs) ==
  /\ \A d \in Urls : Len(depsToFragments[d]) < MaxEntries
  /\ thrown' = NoErr
  /\ RecordDependencies(f, GetDependencies(fs))
  /\ UNCHANGED << onDisk, bundler, paths, client, depStream, htmlDoc, importFeatures, documentDeps, started,
                  sourceFilesLoaded, files, warnings, allFragmentsToAnalyze,
                  resolved, deferredFiles, promises, srcState, enumerated,
                  analyzeQueue, cur, analyzeState, sourcesOut, srcErrors,
                  depQueue, pushed, depEnded, depState, depsOut, depErrors,
                  doneCalls >>

\* _addDependencies(f, deps), deps being what _getDependencies makes of fs
AddDependenciesCall(f, fs) ==
  /\ \A d \in Urls : Len(depsToFragments[d]) < MaxEntries
  /\ IF AddDependenciesThrows(allFragmentsToAnalyze, f)
     THEN /\ thrown' = IncorrectlyCalled(f)
          /\ UNCHANGED << fragmentToFullDeps, fragmentToDeps, depsToFragments >>
     ELSE /\ thrown' = NoErr
          /\ RecordDependencies(f, GetDependencies(fs))
  /\ UNCHANGED << onDisk, bundler, paths, client, depStream, htmlDoc, importFeatures, documentDeps, started,
                  sourceFilesLoaded, files, warnings, allFragmentsToAnalyze,
                  resolved, deferredFiles, promises, srcState, enumerated,
                  analyzeQueue, cur, analyzeState, sourcesOut, srcErrors,
                  depQueue, pushed, depEnded, depState, depsOut, depErrors,
                  doneCalls >>

\* analyzeFile: this.allFragmentsToAnalyze.delete(url)
DeleteFragment(f) ==
  /\ f \in allFragmentsToAnalyze
  /\ allFragmentsToAnalyze' = allFragmentsToAnalyze \ {f}
  /\ UNCHANGED << onDisk, bundler, paths, client, depStream, htmlDoc, importFeatures, documentDeps, thrown, started,
                  sourceFilesLoaded, files, warnings, depsToFragments,
                  fragmentToDeps, fragmentToFullDeps, resolved, deferredFiles,
                  promises, srcState, enumerated, analyzeQueue, cur,
                  analyzeState, sourcesOut, srcErrors, depQueue, pushed,
                  depEnded, depState, depsOut, depErrors, doneCalls >>

InitIndex ==
  /\ onDisk = Urls
  /\ Constructed
  /\ NoDirectCall

NextIndex ==
  \/ \E f \in Urls, fs \in FeatureLists : AddDependenciesCall(f, fs)
  \/ \E f \in Urls : DeleteFragment(f)

SpecIndex == InitIndex /\ [][NextIndex]_vars

\* the reference features a document may have: urls inside the package and
\* outside it, of the three kinds and of another kind
ImportUrls == {"c", "d", External}
ImportTypes == {"html-import", "html-script", "html-style", "css-import"}
ImportFeatures == {Feature(u, t) : u \in ImportUrls, t \in ImportTypes}
ImportFeatureLists == UNION {[1..k -> ImportFeatures] : k \in 0..MaxFeatures}

\* _getDependencies(url) for a document the analyzer produced, with the
\* features importFeatures
GetDependenciesCall ==
  /\ documentDeps = << >>
  /\ documentDeps' = << GetDependencies(importFeatures) >>
  /\ UNCHANGED << onDisk, bundler, paths, client, depStream, htmlDoc, importFeatures, thrown, started, sourceFilesLoaded,
                  files, warnings, allFragmentsToAnalyze, depsToFragments,
                  fragmentToDeps, fragmentToFullDeps, resolved, deferredFiles,
                  promises, srcState, enumerated, analyzeQueue, cur,
                  analyzeState, sourcesOut, srcErrors, depQueue, pushed,
                  depEnded, depState, depsOut, depErrors, doneCalls >>

InitGetDependencies ==
  /\ onDisk = Urls
  /\ Constructed
  /\ importFeatures \in ImportFeatureLists
  /\ documentDeps = << >>
  /\ thrown = NoErr
  /\ bundler = << >>
  /\ paths = << >>
  /\ client = << >>
  /\ depStream = << >>
  /\ htmlDoc = << >>

NextGetDependencies == GetDependenciesCall

SpecGetDependencies == InitGetDependencies /\ [][NextGetDependencies]_vars

(***************************************************************************)
(* The run with calls from outside after its success: addFile of a         *)
(* generated file at any time, _addDependencies once analyzeDependencies   *)
(* is resolved.                                                            *)
(***************************************************************************)
InitLate == InitSideChannel

\* the ids of the late calls: a fragment, and a source that is no fragment
LateIds == {"a", "c"}

NextLate ==
  \/ NextSideChannel
  \/ /\ resolved > 0
     /\ \E f \in LateIds, fs \in FeatureLists : AddDependenciesCall(f, fs)

SpecLate == InitLate /\ [][NextLate]_vars

(***************************************************************************)
(* A project whose documents are known: what the analyzer finds in each    *)
(* document, and the analysis of a fragment request by request. Fragment a *)
(* imports b and c, fragment b imports d.                                  *)
(***************************************************************************)
\* the import features a document has itself, in document order
LocalFeatures(u) ==
  IF u = "a"
  THEN << Feature("b", "html-import"), Feature("c", "html-import") >>
  ELSE IF u = "b" THEN << Feature("d", "html-import") >>
  ELSE << >>

\* this.analyzer.analyze([url]) has asked the loader for u
WasRequested(u) == \E i \in 1..Len(promises) : promises[i].url = u

\* the analyzer was given the content of u
Loaded(u) ==
  \E i \in 1..Len(promises) :
    promises[i].url = u /\ promises[i].st = "resolved"

\* the request of the analyzer for u was rejected
LoadFailed(u) ==
  \E i \in 1..Len(promises) :
    promises[i].url = u /\ promises[i].st = "rejected"

\* the features still to visit and, in acc, the features found and the
\* documents entered
RECURSIVE Walk(_, _)
Walk(todo, acc) ==
  IF todo = << >> THEN acc.out
  ELSE LET f == Head(todo)
           into == Loaded(f.url) /\ f.url \notin acc.seen
       IN Walk((IF into THEN LocalFeatures(f.url) ELSE << >>) \o Tail(todo),
               [out |-> Append(acc.out, f), seen |-> acc.seen \cup {f.url}])

\* a query with imported: false
GetFeatures_LocalOnly(u) == LocalFeatures(u)

\* doc.getFeatures({kind: 'import', externalPackages: true, imported: true}):
\* the features of the document and, behind each import, those of the
\* imported document, every document once
GetFeatures(u) == Walk(LocalFeatures(u), [out |-> << >>, seen |-> {u}])

\* the ids analyze([f]) asks the loader for: f and, with f loaded, every
\* import found
Wanted(f) ==
  IF Loaded(f)
  THEN {f} \cup {GetFeatures(f)[i].url : i \in 1..Len(GetFeatures(f))}
  ELSE {f}

\* doc.getWarnings({imported: true}): an import that could not be loaded
CouldNotLoad(u) == Warning(u, "ERROR", "could-not-load")
GetWarnings(f) == {CouldNotLoad(u) : u \in {w \in Wanted(f) : LoadFailed(w)}}

\* the analysis in flight asks for the content of u; the analyzer keeps what
\* it was given and asks for no id twice
AnalyzerLoad(u) ==
  /\ cur # None
  /\ u \in Wanted(cur)
  /\ ~WasRequested(u)
  /\ LoadRequest(u)

\* analyze([url]) settles with the document of the fragment
AnalyzeSettles ==
  /\ cur # None
  /\ \A u \in Wanted(cur) : WasRequested(u)
  /\ AnalysisSucceeds(GetFeatures(cur), GetWarnings(cur))

InitProject == Init

NextProject ==
  \/ StartAnalysis
  \/ \E u \in Urls : ResolveSourceFile(u)
  \/ OnSourcesStreamComplete
  \/ AnalyzePassFile
  \/ AnalyzeFileStart
  \/ AnalyzeTransformEnd
  \/ \E u \in Urls : AnalyzerLoad(u)
  \/ AnalyzeSettles
  \/ DependencyLoad
  \/ DependenciesEnd

SpecProject == InitProject /\ [][NextProject]_vars

\* every callback that is ready runs: the event loop leaves none waiting
FairSpecProject == SpecProject /\ WF_vars(NextProject)

(***************************************************************************)
(* BuildBundler (bundle.ts): the file map of the files that reached the    *)
(* bundler, and the report of the files changed since the analysis.        *)
(***************************************************************************)
\* file.contents of a file that a stage between analyzer and bundler rewrote
BuiltContent == "built"

\* this._files of the bundler: id -> contents of the downstream file, or Absent
DownstreamMaps == [Urls -> {Absent, DiskContent("a"), BuiltContent}]

\* this._buildAnalyzer.files as the analysis left it
AnalyzerFileMaps ==
  { [u \in Urls |-> IF u \in stored THEN ReadFile(u, 1) ELSE NoFile] :
      stored \in SUBSET Urls }

\* the orders in which a Map with the keys ks is iterated: insertion order
KeyOrders(ks) ==
  { o \in [1..Cardinality(ks) -> ks] :
      \A i, j \in 1..Cardinality(ks) : i # j => o[i] # o[j] }

\* this._bundler.analyzer.urlResolver.relative(url): the package-relative
\* form of a resolved url
Relative(u) == << "relative", u >>

\* a comparison that takes a missing downstream file for a changed one
ContentChanged_MissingCounts(downstream, original) ==
  downstream # original.contents

\* downstreamFile && downstreamFile.contents.toString() !==
\*     originalFile.contents.toString()
ContentChanged(downstream, original) ==
  downstream # Absent /\ downstream # original.contents

\* the loop of _getFilesChangedSinceInitialAnalysis over the entries that are
\* left, in Map order
RECURSIVE FilesChanged(_, _, _, _)
FilesChanged(order, original, downstream, changed) ==
  IF order = << >> THEN changed
  ELSE LET url == Head(order)
       IN FilesChanged(
            Tail(order), original, downstream,
            IF ContentChanged(downstream[url], original[url])
            THEN Append(changed, Relative(url)) ELSE changed)

\* _getFilesChangedSinceInitialAnalysis()
GetFilesChangedSinceInitialAnalysis ==
  /\ bundler.filesChanged = << >>
  /\ bundler' =
       [bundler EXCEPT !.filesChanged =
          << FilesChanged(bundler.order, bundler.analyzerFiles,
                          bundler.files, << >>) >>]
  /\ UNCHANGED << onDisk, paths, client, depStream, htmlDoc, importFeatures,
                  documentDeps, thrown,
                  started, sourceFilesLoaded, files, warnings,
                  allFragmentsToAnalyze, depsToFragments, fragmentToDeps,
                  fragmentToFullDeps, resolved, deferredFiles, promises,
                  srcState, enumerated, analyzeQueue, cur, analyzeState,
                  sourcesOut, srcErrors, depQueue, pushed, depEnded, depState,
                  depsOut, depErrors, doneCalls >>

\* the bundler when its input has ended, over an analyzer whose File Store
\* holds any of the files
InitBundler ==
  /\ onDisk = Urls
  /\ Constructed
  /\ importFeatures = << >>
  /\ documentDeps = << >>
  /\ thrown = NoErr
  /\ paths = << >>
  /\ client = << >>
  /\ depStream = << >>
  /\ htmlDoc = << >>
  /\ \E fs \in AnalyzerFileMaps, ds \in DownstreamMaps :
       \E o \in KeyOrders({u \in Urls : fs[u] # NoFile}) :
         bundler = [analyzerFiles |-> fs, order |-> o, files |-> ds,
                    filesChanged |-> << >>]

NextBundler == GetFilesChangedSinceInitialAnalysis

SpecBundler == InitBundler /\ [][NextBundler]_vars

(***************************************************************************)
(* path-transformers: file system paths and urls as strings of characters, *)
(* and the ids that resolveFile and addFile make of the path of a File.    *)
(***************************************************************************)
Slash == "/"
Backslash == "\\"
Platforms == {"posix", "win32"}

\* path.sep
PathSep(pl) == IF pl = "win32" THEN Backslash ELSE Slash

\* what separates the names of a path: win32 takes both characters
IsPathSep(pl, c) == c = PathSep(pl) \/ (pl = "win32" /\ c = Slash)

\* the characters of the paths and of the urls at hand
PathChars == {Slash, Backslash, ".", "p", " "}
UrlChars == {Slash, ".", "p", "%20"}

\* the strings of at most n characters that begin with one of first
StringsFrom(first, chars, n) ==
  UNION { {s \in [1..k -> chars] : s[1] \in first} : k \in 1..n }

\* config.root, an absolute path: the directory p
Root(pl) == << PathSep(pl), "p" >>

\* a value returned, an error thrown
Ok(v) == [error |-> None, value |-> v]
Fail(e) == [error |-> e, value |-> << >>]

\* the string s cut at the separators of the platform
RECURSIVE SplitFrom(_, _, _, _)
SplitFrom(pl, s, seg, segs) ==
  IF s = << >> THEN Append(segs, seg)
  ELSE IF IsPathSep(pl, Head(s))
    THEN SplitFrom(pl, Tail(s), << >>, Append(segs, seg))
  ELSE SplitFrom(pl, Tail(s), Append(seg, Head(s)), segs)

Segments(pl, s) == SplitFrom(pl, s, << >>, << >>)

\* empty and "." names dropped, ".." taking back the name before it
RECURSIVE Resolve(_, _)
Resolve(segs, acc) ==
  IF segs = << >> THEN acc
  ELSE LET x == Head(segs)
       IN IF x = << >> \/ x = << "." >> THEN Resolve(Tail(segs), acc)
          ELSE IF x = << ".", "." >>
            THEN Resolve(Tail(segs),
                         IF acc = << >> THEN acc
                         ELSE SubSeq(acc, 1, Len(acc) - 1))
          ELSE Resolve(Tail(segs), Append(acc, x))

\* the names of an absolute path, from the top of the file system
PathSegments(pl, s) == Resolve(Segments(pl, s), << >>)

RECURSIVE JoinWith(_, _)
JoinWith(sep, segs) ==
  IF segs = << >> THEN << >>
  ELSE IF Len(segs) = 1 THEN segs[1]
  ELSE segs[1] \o << sep >> \o JoinWith(sep, Tail(segs))

IsPrefix(a, b) == Len(a) <= Len(b) /\ SubSeq(b, 1, Len(a)) = a

\* path.normalize(p) of an absolute path: one separator between names, no
\* "." and "..", a trailing separator kept
PathNormalize(pl, s) ==
  LET names == PathSegments(pl, s)
      trailing == names # << >> /\ IsPathSep(pl, s[Len(s)])
  IN << PathSep(pl) >> \o JoinWith(PathSep(pl), names)
       \o (IF trailing THEN << PathSep(pl) >> ELSE << >>)

\* percent-encoding of the characters a url cannot hold, and back
EncodeChar(c) ==
  IF c = " " THEN "%20" ELSE IF c = Backslash THEN "%5C" ELSE c
DecodeChar(c) ==
  IF c = "%20" THEN " " ELSE IF c = "%5C" THEN Backslash ELSE c
EncodeUri(s) == [i \in 1..Len(s) |-> EncodeChar(s[i])]
DecodeUri(s) == [i \in 1..Len(s) |-> DecodeChar(s[i])]

\* a urlFromPath that compares the two strings
UrlFromPath_StringPrefix(pl, root, target) ==
  IF ~IsPrefix(root, target) THEN Fail("PathEscapesRoot")
  ELSE Ok(EncodeUri(JoinWith(Slash,
            PathSegments(pl, SubSeq(target, Len(root) + 1, Len(target))))))

\* urlFromPath(root, target): the root-relative url of a path inside the root
UrlFromPath(pl, root, target) ==
  LET r == PathSegments(pl, root)
      t == PathSegments(pl, target)
  IN IF ~IsPrefix(r, t) THEN Fail("PathEscapesRoot")
     ELSE Ok(EncodeUri(JoinWith(Slash, SubSeq(t, Len(r) + 1, Len(t)))))

\* the url of the package: the path part of the file url of the root
PackageUrl(pl, root) ==
  << Slash >> \o EncodeUri(JoinWith(Slash, PathSegments(pl, root)))
    \o << Slash >>

\* this.analyzer.resolveUrl(url) of a package-relative url
ResolveUrl(pl, root, rel) == PackageUrl(pl, root) \o rel

\* a getAbsoluteFilePath that leaves the url encoded
GetAbsoluteFilePath_NoDecode(pl, root, url) ==
  LET names == Resolve(Segments("posix", url), << >>)
  IN IF ~IsPrefix(PathSegments(pl, root), names) THEN Fail("PathEscapesRoot")
     ELSE Ok(<< PathSep(pl) >> \o JoinWith(PathSep(pl), names))

\* getAbsoluteFilePath(config, url) / pathFromResolvedUrl(url): the path of a
\* resolved url, its names decoded and joined by path.sep
GetAbsoluteFilePath(pl, root, url) ==
  LET segs == Resolve(Segments("posix", url), << >>)
      names == [i \in 1..Len(segs) |-> DecodeUri(segs[i])]
  IN IF ~IsPrefix(PathSegments(pl, root), names) THEN Fail("PathEscapesRoot")
     ELSE Ok(<< PathSep(pl) >> \o JoinWith(PathSep(pl), names))

\* a resolveFile that looks the path up as it is spelled
ResolveFileUrl_AsSpelled(pl, root, filePath) ==
  Ok(ResolveUrl(pl, root, EncodeUri(
       SubSeq(filePath, Len(root) + 2, Len(filePath)))))

\* resolveFile: const url =
\*   this.analyzer.resolveUrl(urlFromPath(this.config.root, filePath))
ResolveFileUrl(pl, root, filePath) ==
  LET rel == UrlFromPath(pl, root, filePath)
  IN IF rel.error # None THEN rel ELSE Ok(ResolveUrl(pl, root, rel.value))

\* addFile: the key of this.files.set, from path.normalize(file.path)
AddFileUrl(pl, root, filePath) ==
  LET rel == UrlFromPath(pl, root, PathNormalize(pl, filePath))
  IN IF rel.error # None THEN rel ELSE Ok(ResolveUrl(pl, root, rel.value))

\* the paths a File may carry and the resolved urls a caller may pass
AbsolutePaths(pl) ==
  StringsFrom({c \in PathChars : IsPathSep(pl, c)}, PathChars, MaxPathLen)
AbsoluteUrls == StringsFrom({Slash}, UrlChars, MaxPathLen)

\* the call of a path transformer on a path, or on a resolved url
PathInput(pl, s) ==
  [platform |-> pl, path |-> << s >>, url |-> << >>, resolved |-> << >>,
   back |-> << >>, ids |-> << >>]
UrlInput(pl, u) ==
  [platform |-> pl, path |-> << >>, url |-> << >>, resolved |-> << u >>,
   back |-> << >>, ids |-> << >>]

AllButPaths ==
  << onDisk, bundler, client, depStream, htmlDoc, importFeatures, documentDeps, thrown, started,
     sourceFilesLoaded, files, warnings, allFragmentsToAnalyze,
     depsToFragments, fragmentToDeps, fragmentToFullDeps, resolved,
     deferredFiles, promises, srcState, enumerated, analyzeQueue, cur,
     analyzeState, sourcesOut, srcErrors, depQueue, pushed, depEnded,
     depState, depsOut, depErrors, doneCalls >>

\* urlFromPath(config.root, path), and analyzer.resolveUrl of what it returns
UrlFromPathCall ==
  /\ paths.path # << >>
  /\ paths.url = << >>
  /\ LET pl == paths.platform
         rel == UrlFromPath(pl, Root(pl), paths.path[1])
     IN paths' =
          [paths EXCEPT
             !.url = << rel >>,
             !.resolved = IF rel.error # None THEN << >>
                          ELSE << ResolveUrl(pl, Root(pl), rel.value) >>]
  /\ UNCHANGED AllButPaths

\* getAbsoluteFilePath(config, url) of the resolved url at hand
GetAbsoluteFilePathCall ==
  /\ paths.resolved # << >>
  /\ paths.back = << >>
  /\ LET pl == paths.platform
     IN paths' =
          [paths EXCEPT
             !.back = << GetAbsoluteFilePath(pl, Root(pl), paths.resolved[1]) >>]
  /\ UNCHANGED AllButPaths

\* resolveFile(file) of a File with the path at hand: the id it looks the
\* pending request up with, and the id addFile stores the file under; when
\* urlFromPath throws, resolveFile throws before addFile is called
ResolveFileCall ==
  /\ paths.path # << >>
  /\ paths.ids = << >>
  /\ LET pl == paths.platform
         lookedUp == ResolveFileUrl(pl, Root(pl), paths.path[1])
         stored == IF lookedUp.error # None THEN lookedUp
                   ELSE AddFileUrl(pl, Root(pl), paths.path[1])
     IN paths' =
          [paths EXCEPT !.ids = << [lookedUp |-> lookedUp, stored |-> stored] >>]
  /\ UNCHANGED AllButPaths

InitPaths ==
  /\ onDisk = Urls
  /\ Constructed
  /\ importFeatures = << >>
  /\ documentDeps = << >>
  /\ thrown = NoErr
  /\ bundler = << >>
  /\ client = << >>
  /\ depStream = << >>
  /\ htmlDoc = << >>
  /\ paths \in
       {PathInput(in[1], in[2]) :
          in \in UNION {{pl} \X AbsolutePaths(pl) : pl \in Platforms}}
         \cup {UrlInput(pl, u) : pl \in Platforms, u \in AbsoluteUrls}

NextPaths ==
  \/ UrlFromPathCall
  \/ GetAbsoluteFilePathCall
  \/ ResolveFileCall

SpecPaths == InitPaths /\ [][NextPaths]_vars

(***************************************************************************)
(* The caller of the BuildAnalyzer: startAnalysis(), sources() and         *)
(* dependencies(), called in any order and at any time of the run of the   *)
(* known project. A stream is named by the set-up that created it.         *)
(***************************************************************************)
ClientMethods == {"startAnalysis", "sources", "dependencies"}

StartedAlready_Never == FALSE

\* startAnalysis: if (this.started) return
StartedAlready == started

\* one call of startAnalysis(), or of sources() or dependencies(), which call
\* startAnalysis() and return the processing stream that is then assigned
ClientCall(m) ==
  /\ client.calls < MaxCalls
  /\ LET setUps == IF StartedAlready THEN client.setUps ELSE client.setUps + 1
     IN /\ IF StartedAlready
           THEN UNCHANGED AllButClient
           ELSE SetUp
        /\ client' =
             [calls   |-> client.calls + 1,
              setUps  |-> setUps,
              streams |-> IF StartedAlready THEN client.streams ELSE setUps,
              gotSources |->
                IF m = "sources"
                THEN client.gotSources \cup {IF StartedAlready THEN client.streams ELSE setUps}
                ELSE client.gotSources,
              gotDependencies |->
                IF m = "dependencies"
                THEN client.gotDependencies \cup {IF StartedAlready THEN client.streams ELSE setUps}
                ELSE client.gotDependencies]

NextStart ==
  \/ \E m \in ClientMethods : ClientCall(m)
  \/ \E u \in Urls : ResolveSourceFile(u)
  \/ OnSourcesStreamComplete
  \/ AnalyzePassFile
  \/ AnalyzeFileStart
  \/ AnalyzeTransformEnd
  \/ \E u \in Urls : AnalyzerLoad(u)
  \/ AnalyzeSettles
  \/ DependencyLoad
  \/ DependenciesEnd

InitStart ==
  /\ onDisk \in Disks
  /\ Constructed
  /\ importFeatures = << >> /\ documentDeps = << >> /\ thrown = NoErr
  /\ bundler = << >> /\ paths = << >> /\ depStream = << >> /\ htmlDoc = << >>
  /\ client = [calls |-> 0, setUps |-> 0, streams |-> 0,
               gotSources |-> {}, gotDependencies |-> {}]

SpecStart == InitStart /\ [][NextStart]_vars

(***************************************************************************)
(* The build: the run of the known project, and a BuildBundler that reads  *)
(* the files of sources() and dependencies() merged into one stream, with  *)
(* the generated file of a stage in between. The bundler has this._files   *)
(* as a Map: keys in insertion order, and the file of each key.            *)
(***************************************************************************)
\* document.content of a bundle that polymer-bundler returns
BundledContent == "bundled"

\* the id of a bundle that is no file of the project (a shared bundle)
SharedBundle == "s"

\* the ids this._files can hold
BundleUrls == Urls \cup {SharedBundle}

\* what this._bundler.bundle(manifest) can return: the ids of the bundle
\* documents in the order of the Map (bundles of fragments, a shared bundle),
\* and the ids that the bundles of the manifest list as inlined
BundleResults ==
  [documents : UNION {KeyOrders(ks) : ks \in SUBSET (Fragments \cup {SharedBundle})},
   inlined   : SUBSET (Urls \ {"a"})]

\* every variable but bundler
AllButBundler ==
  << onDisk, paths, client, depStream, htmlDoc, importFeatures, documentDeps,
     thrown, started, sourceFilesLoaded, files, warnings,
     allFragmentsToAnalyze, depsToFragments, fragmentToDeps,
     fragmentToFullDeps, resolved, deferredFiles, promises, srcState,
     enumerated, analyzeQueue, cur, analyzeState, sourcesOut, srcErrors,
     depQueue, pushed, depEnded, depState, depsOut, depErrors, doneCalls >>

\* a _mapFile that leaves a key that is present as it is
MapFile_KeepsFirst(fm, file) ==
  IF fm.files[file.url] # NoFile THEN fm
  ELSE [keys |-> Append(fm.keys, file.url),
        files |-> [fm.files EXCEPT ![file.url] = file]]

\* _mapFile(file): this._files.set(id of file.path, file); a key that is
\* present keeps its place in the Map
MapFile(fm, file) ==
  [keys  |-> IF fm.files[file.url] # NoFile THEN fm.keys
             ELSE Append(fm.keys, file.url),
   files |-> [fm.files EXCEPT ![file.url] = file]]

\* a bundler whose this._files is the Map of the analyzer
AnalyzerFilesAfterUnmap_SameMap(store, inlined) ==
  [u \in Urls |-> IF u \in inlined THEN NoFile ELSE store[u]]

\* this._buildAnalyzer.files after _unmapBundledFiles: this._files is a Map
\* of the bundler's own (private _files = new Map()), the deletes leave the
\* File Store as it is
AnalyzerFilesAfterUnmap(store, inlined) == store

\* _unmapBundledFiles(manifest): this._files.delete(filename) for every id
\* that a bundle lists as inlined
UnmapBundledFiles(fm, inlined) ==
  [keys  |-> SelectSeq(fm.keys, LAMBDA k : k \notin inlined),
   files |-> [u \in BundleUrls |-> IF u \in inlined THEN NoFile ELSE fm.files[u]]]

\* the streams merged into the input of the bundler: the two outputs of the
\* analyzer, and a stage in between that writes one generated file
BundlerSources == {"sources", "dependencies", "stage"}

\* the loop of _transformIter over its input: the next file that comes from
\* a stream of the input is mapped
BundlerInput(from) ==
  /\ bundler.phase = "reading"
  /\ LET out  == CASE from = "sources" -> sourcesOut
                   [] from = "dependencies" -> depsOut
                   [] from = "stage" -> << CHOOSE u \in Generated : TRUE >>
         i    == bundler.taken[from] + 1
     IN /\ i <= Len(out)
        /\ LET file == IF from = "stage" THEN GeneratedFile(out[i])
                       ELSE ReadFile(out[i], ReadsOf(SubSeq(out, 1, i), out[i]))
           IN bundler' =
                [bundler EXCEPT
                   !.taken[from] = i,
                   !.received = Append(@, file),
                   !.map = MapFile(@, file)]
  /\ UNCHANGED AllButBundler

\* a _buildBundles that maps the bundle documents before it unmaps the
\* inlined files
BuildBundles_UnmapsLast(result) ==
  /\ bundler.phase = "reading"
  /\ analyzeState = "ended" /\ depState = "ended"
  /\ bundler.taken["sources"] = Len(sourcesOut)
  /\ bundler.taken["dependencies"] = Len(depsOut)
  /\ LET RECURSIVE MapDocuments(_, _)
         MapDocuments(fm, ids) ==
           IF ids = << >> THEN fm
           ELSE MapDocuments(MapFile(fm, File(Head(ids), BundledContent, 0)),
                             Tail(ids))
     IN bundler' =
          [bundler EXCEPT
             !.phase = "yielding",
             !.filesChanged =
               {Relative(u) : u \in
                  {v \in Urls : /\ files[v] # NoFile
                                /\ bundler.map.files[v] # NoFile
                                /\ ContentChanged(bundler.map.files[v].contents,
                                                  files[v])}},
             !.result = << result >>,
             !.map = UnmapBundledFiles(MapDocuments(@, result.documents),
                                       result.inlined)]
  /\ files' = AnalyzerFilesAfterUnmap(files, result.inlined)
  /\ UNCHANGED << onDisk, paths, client, depStream, htmlDoc, importFeatures,
                  documentDeps, thrown, started, sourceFilesLoaded, warnings,
                  allFragmentsToAnalyze, depsToFragments, fragmentToDeps,
                  fragmentToFullDeps, resolved, deferredFiles, promises,
                  srcState, enumerated, analyzeQueue, cur, analyzeState,
                  sourcesOut, srcErrors, depQueue, pushed, depEnded, depState,
                  depsOut, depErrors, doneCalls >>

\* _buildBundles(), when the input has ended: the changed files are reported
\* to the analyzer of the bundler, the bundler bundles, the inlined files
\* are unmapped and the bundle documents mapped
BuildBundles(result) ==
  /\ bundler.phase = "reading"
  /\ analyzeState = "ended" /\ depState = "ended"
  /\ bundler.taken["sources"] = Len(sourcesOut)
  /\ bundler.taken["dependencies"] = Len(depsOut)
  /\ LET RECURSIVE MapDocuments(_, _)
         MapDocuments(fm, ids) ==
           IF ids = << >> THEN fm
           ELSE MapDocuments(MapFile(fm, File(Head(ids), BundledContent, 0)),
                             Tail(ids))
     IN bundler' =
          [bundler EXCEPT
             !.phase = "yielding",
             !.filesChanged =
               {Relative(u) : u \in
                  {v \in Urls : /\ files[v] # NoFile
                                /\ bundler.map.files[v] # NoFile
                                /\ ContentChanged(bundler.map.files[v].contents,
                                                  files[v])}},
             !.result = << result >>,
             !.map = MapDocuments(UnmapBundledFiles(@, result.inlined),
                                  result.documents)]
  /\ files' = AnalyzerFilesAfterUnmap(files, result.inlined)
  /\ UNCHANGED << onDisk, paths, client, depStream, htmlDoc, importFeatures,
                  documentDeps, thrown, started, sourceFilesLoaded, warnings,
                  allFragmentsToAnalyze, depsToFragments, fragmentToDeps,
                  fragmentToFullDeps, resolved, deferredFiles, promises,
                  srcState, enumerated, analyzeQueue, cur, analyzeState,
                  sourcesOut, srcErrors, depQueue, pushed, depEnded, depState,
                  depsOut, depErrors, doneCalls >>

\* for (const file of this._files.values()) yield file
BundlerYield ==
  /\ bundler.phase = "yielding"
  /\ LET i == Len(bundler.out) + 1
     IN IF i <= Len(bundler.map.keys)
        THEN bundler' =
               [bundler EXCEPT
                  !.out = Append(@, bundler.map.files[bundler.map.keys[i]])]
        ELSE bundler' = [bundler EXCEPT !.phase = "ended"]
  /\ UNCHANGED AllButBundler

InitBuild ==
  /\ onDisk \in Disks
  /\ Constructed
  /\ importFeatures = << >> /\ documentDeps = << >> /\ thrown = NoErr
  /\ paths = << >> /\ client = << >> /\ depStream = << >> /\ htmlDoc = << >>
  /\ bundler = [phase |-> "reading",
                taken |-> [from \in BundlerSources |-> 0],
                received |-> << >>,
                map |-> [keys |-> << >>, files |-> [u \in BundleUrls |-> NoFile]],
                filesChanged |-> {},
                result |-> << >>,
                out |-> << >>]

NextBuild ==
  \/ NextProject
  \/ \E from \in BundlerSources : BundlerInput(from)
  \/ \E result \in BundleResults : BuildBundles(result)
  \/ BundlerYield

SpecBuild == InitBuild /\ [][NextBuild]_vars

(***************************************************************************)
(* SourceDependenciesStream (streams.ts): the files that pass through it,  *)
(* the paths it has seen (this.files) and the dependencies it has pushed.  *)
(* A Transform is given its next file when the callback of the one before  *)
(* was called.                                                             *)
(***************************************************************************)
\* the paths of the files and of their dependencies: a, b, d and e are HTML
\* documents; a, b and c match the source globs
StreamPaths == Urls \cup {"e"}

\* what _getDependencies(file.path) can be resolved with: the imports, the
\* scripts and the styles of the document, any paths, some of them twice
StreamDeps ==
  LET upTo(n) == {<< >>} \cup StringsFrom(StreamPaths, StreamPaths, n)
  IN {DocumentDeps(i, s, t) : i \in upTo(2), s \in upTo(1), t \in upTo(1)}

\* a pushDependency that does not look at the paths it has seen
PushDependency_Unseen(st, dependencyPath) ==
  IF IsSource(dependencyPath) THEN st
  ELSE [st EXCEPT !.files = @ \cup {dependencyPath},
                  !.out = Append(@, dependencyPath)]

\* pushDependency(dependencyPath)
PushDependency(st, dependencyPath) ==
  IF dependencyPath \in st.files THEN st
  ELSE IF IsSource(dependencyPath)        \* minimatchAll(path, sourceGlobs)
  THEN st
  ELSE [st EXCEPT !.files = @ \cup {dependencyPath},
                  !.out = Append(@, dependencyPath)]

\* _transform(file, encoding, callback) up to its returns and to the call of
\* _getDependencies
SourceTransform(path) ==
  /\ depStream.state = "running"
  /\ depStream.file = None
  /\ Len(depStream.passed) < MaxFiles
  /\ depStream' =
       IF \/ path \in depStream.files             \* this.files.has(file.path)
          \/ path \notin {"a", "b", "d", "e"}      \* file.extname !== '.html'
       THEN [depStream EXCEPT !.passed = Append(@, path)]
       ELSE [depStream EXCEPT !.passed = Append(@, path), !.file = path]
  /\ UNCHANGED AllButDepStream

\* the promise of _getDependencies settles: every import, script and style
\* goes to pushDependency and the callback is called, or the callback is
\* called with the error
GetDependenciesSettles(result) ==
  /\ depStream.file # None
  /\ LET RECURSIVE PushAll(_, _)
         PushAll(st, ds) ==
           IF ds = << >> THEN st
           ELSE PushAll(PushDependency(st, Head(ds)), Tail(ds))
     IN depStream' =
          IF result.error # None
          THEN [depStream EXCEPT !.file = None, !.state = "failed"]
          ELSE [PushAll(depStream,
                        result.value.imports \o result.value.scripts
                          \o result.value.styles)
                  EXCEPT !.file = None]
  /\ UNCHANGED AllButDepStream

InitDepStream ==
  /\ onDisk = Urls
  /\ Constructed
  /\ importFeatures = << >> /\ documentDeps = << >> /\ thrown = NoErr
  /\ bundler = << >> /\ paths = << >> /\ client = << >> /\ htmlDoc = << >>
  /\ depStream = [state |-> "running", files |-> {}, passed |-> << >>,
                  file |-> None, out |-> << >>]

NextDepStream ==
  \/ \E path \in StreamPaths : SourceTransform(path)
  \/ \E result \in {Ok(d) : d \in StreamDeps} \cup {Fail("analysis")} :
       GetDependenciesSettles(result)

SpecDepStream == InitDepStream /\ [][NextDepStream]_vars

(***************************************************************************)
(* compileJavaScriptInHTML (compile.ts), called on a document: the nodes   *)
(* of the document in document order, each with the attributes the        *)
(* function reads; `from` names a node of the document given, 0 a node the *)
(* function has made.                                                      *)
(***************************************************************************)
HtmlNode(tag, type, src, nomodule, text) ==
  [tag |-> tag, type |-> type, src |-> src, nomodule |-> nomodule,
   text |-> text, from |-> 0]

\* the src of the Web Component Tester script
WctUrl == "web-component-tester/browser.js"

\* the nodes a document is made of: an element that is no script; inline
\* scripts, classic and module, one that babel cannot compile; external
\* scripts, classic, module, the script of WCT as either; scripts with
\* nomodule, one of them of a type that is not JavaScript
HtmlNodes ==
  { HtmlNode("div", None, None, FALSE, "markup"),
    HtmlNode("script", None, None, FALSE, "es6"),
    HtmlNode("script", "module", None, FALSE, "es6"),
    HtmlNode("script", "module", None, FALSE, "syntax error"),
    HtmlNode("script", "module", "m.js", FALSE, ""),
    HtmlNode("script", None, WctUrl, FALSE, ""),
    HtmlNode("script", "module", WctUrl, FALSE, ""),
    HtmlNode("script", None, None, TRUE, "es6"),
    HtmlNode("script", "text/template", None, TRUE, "markup") }

\* what parse5.parseFragment makes of the strings of the function
NewLine == HtmlNode("#text", None, None, FALSE, "newline")
RequireJsScript == HtmlNode("script", None, "requireJsUrl", FALSE, "")
RequireCall == HtmlNode("script", None, None, FALSE, "require([src])")
WaitForScript == HtmlNode("script", None, None, FALSE, "WCT.waitFor")
RequirePatchScript == HtmlNode("script", None, None, FALSE, "window.require")

\* isJsScriptNode
IsJsScriptNode(n) ==
  /\ n.tag = "script"
  /\ n.type \in {None, "text/javascript", "application/javascript", "module"}

\* an injection for every module script
InjectsRequireJs_EveryModule(transformingModule, requireScriptTag) ==
  transformingModule

\* if (transformingModule && !requireScriptTag)
InjectsRequireJs(transformingModule, requireScriptTag) ==
  transformingModule /\ ~requireScriptTag

\* the loop over jsNodes, from node i of the document on; acc has the nodes
\* of the document as they stand, left of node i, and the two script tags
\* the function remembers
RECURSIVE CompileScripts(_, _, _, _)
CompileScripts(doc, i, options, acc) ==
  IF i > Len(doc) THEN acc
  ELSE IF ~IsJsScriptNode(doc[i])
  THEN CompileScripts(doc, i + 1, options,
                      [acc EXCEPT !.out = Append(@, doc[i])])
  ELSE
    LET scriptTag == doc[i]
        transformingModule ==
          options.transformModules /\ scriptTag.type = "module"
        inject == InjectsRequireJs(transformingModule, acc.requireScriptTag)
        isInline == scriptTag.src = None
        isWct == scriptTag.src = WctUrl
        replaced == transformingModule /\ ~isInline
        compiled ==
          IF replaced THEN << [RequireCall EXCEPT !.from = i], NewLine >>
          ELSE IF ~isInline \/ scriptTag.text = "syntax error"
          THEN << scriptTag >>
          ELSE IF transformingModule
          THEN << [scriptTag EXCEPT !.type = None, !.text = "amd require"] >>
          ELSE << [scriptTag EXCEPT !.text = "es5"] >>
    IN CompileScripts(doc, i + 1, options,
         [out |-> acc.out
                    \o (IF inject THEN << RequireJsScript, NewLine >> ELSE << >>)
                    \o compiled,
          requireScriptTag |-> acc.requireScriptTag \/ inject,
          wctScriptTag |-> IF isWct THEN i ELSE acc.wctScriptTag,
          wctDetached |-> IF isWct THEN replaced ELSE acc.wctDetached])

\* the nodes with the fragment put before (after) the node that is n
InsertAt(nodes, n, fragment, after) ==
  LET k == CHOOSE j \in 1..Len(nodes) : nodes[j] = n
      cut == IF after THEN k ELSE k - 1
  IN SubSeq(nodes, 1, cut) \o fragment \o SubSeq(nodes, cut + 1, Len(nodes))

\* compileJavaScriptInHTML(doc, options): the documents it can leave, and
\* whether it has thrown. When the script of WCT was an external module the
\* function has replaced it, and dom5.insertBefore is called with the parent
\* of a node that is in no document: it throws, or inserts nothing
CompileJavaScriptInHTML(doc, options) ==
  IF \E i \in 1..Len(doc) : IsJsScriptNode(doc[i]) /\ doc[i].nomodule
  THEN { [doc |-> doc, thrown |-> FALSE] }
  ELSE
    LET acc == CompileScripts(doc, 1, options,
                 [out |-> << >>, requireScriptTag |-> FALSE,
                  wctScriptTag |-> 0, wctDetached |-> FALSE])
        patched == InsertAt(acc.out, RequireJsScript,
                            << NewLine, RequirePatchScript, NewLine >>, TRUE)
    IN IF acc.wctScriptTag = 0 \/ ~acc.requireScriptTag
       THEN { [doc |-> acc.out, thrown |-> FALSE] }
       ELSE IF acc.wctDetached
       THEN { [doc |-> acc.out, thrown |-> TRUE],
              [doc |-> patched, thrown |-> FALSE] }
       ELSE { [doc |-> InsertAt(patched, doc[acc.wctScriptTag],
                                << NewLine, WaitForScript, NewLine >>, FALSE),
               thrown |-> FALSE] }

\* one call of compileJavaScriptInHTML on the document
CompileJavaScriptInHTMLCall ==
  /\ htmlDoc.result = << >>
  /\ \E r \in CompileJavaScriptInHTML(htmlDoc.doc, htmlDoc.options) :
       htmlDoc' = [htmlDoc EXCEPT !.result = << r >>]
  /\ UNCHANGED AllButHtmlDoc

InitHtml ==
  /\ onDisk = Urls
  /\ Constructed
  /\ importFeatures = << >> /\ documentDeps = << >> /\ thrown = NoErr
  /\ bundler = << >> /\ paths = << >> /\ client = << >> /\ depStream = << >>
  /\ \E n \in 1..MaxNodes : \E nodes \in [1..n -> HtmlNodes] :
       \E transformModules \in BOOLEAN :
         htmlDoc = [doc |-> [i \in 1..n |-> [nodes[i] EXCEPT !.from = i]],
                    options |-> [transformModules |-> transformModules],
                    result |-> << >>]

NextHtml == CompileJavaScriptInHTMLCall

SpecHtml == InitHtml /\ [][NextHtml]_vars

(***************************************************************************)
(* What a run has come to.                                                 *)
(***************************************************************************)
\* analyzeDependencies is resolved and _dependenciesStream was ended
Succeeded == resolved > 0 /\ depEnded

\* an error was emitted on an output stream
Failed == srcErrors # << >> \/ depErrors # << >>

\* a turn of the pipeline itself: every step but a new content request
PipelineStep ==
  \/ StartAnalysis
  \/ \E u \in Urls : ResolveSourceFile(u)
  \/ OnSourcesStreamComplete
  \/ SourcesStreamError
  \/ AnalyzePassFile
  \/ AnalyzeFileStart
  \/ AnalyzeTransformEnd
  \/ \E fs \in FeatureLists, ws \in WarningSets : AnalysisSucceeds(fs, ws)
  \/ \E m \in AnalyzerMessages : AnalysisFails(m)
  \/ DependencyLoad
  \/ DependenciesEnd

RangeOf(seq) == {seq[i] : i \in 1..Len(seq)}

(***************************************************************************)
(* C1: every run reaches a terminal outcome, success (analyzeDependencies  *)
(* resolved, dependencies stream ended) or failure (an error emitted on    *)
(* the output streams): a run in which the pipeline has no step left to    *)
(* take has succeeded or failed. Stated for the runs that request no id    *)
(* twice, where no content request is lost.                                *)
(***************************************************************************)
NoIdRequestedTwice ==
  \A i, j \in 1..Len(promises) : promises[i].url = promises[j].url => i = j

C1_RunReachesTerminalOutcome ==
  (NoIdRequestedTwice /\ ~ENABLED PipelineStep) => (Succeeded \/ Failed)

(***************************************************************************)
(* C2: an id is pushed into the dependencies stream at most once, however  *)
(* often and whenever it is requested.                                     *)
(***************************************************************************)
C2_PushedAtMostOnce ==
  \A i, j \in 1..Len(pushed) : pushed[i] = pushed[j] => i = j

(***************************************************************************)
(* C3: for every recorded fragment f and every import d of f, the reverse  *)
(* list of d contains f, and the reverse list of d holds only fragments    *)
(* that import d (so d itself only when d is such a fragment).             *)
(***************************************************************************)
C3_ReverseListHoldsFragments ==
  \A f \in DOMAIN fragmentToDeps :
    \A d \in RangeOf(fragmentToDeps[f]) :
      /\ f \in RangeOf(depsToFragments[d])
      /\ \A g \in RangeOf(depsToFragments[d]) :
           /\ g \in DOMAIN fragmentToDeps
           /\ d \in RangeOf(fragmentToDeps[g])

(***************************************************************************)
(* C4: analyzeDependencies is resolved at most once, in a step that leaves *)
(* allFragmentsToAnalyze empty, every fragment recorded, deferredFiles     *)
(* empty and no warning of ERROR severity; the dependencies stream is      *)
(* ended in that step and in no other.                                     *)
(***************************************************************************)
ErrorWarnings(ws) == {w \in ws : w.severity = "ERROR"}

C4_ResolvedOnceWhenComplete ==
  [][ (resolved' # resolved \/ depEnded' # depEnded) =>
        /\ resolved = 0 /\ resolved' = 1
        /\ ~depEnded /\ depEnded'
        /\ allFragmentsToAnalyze' = {}
        /\ Fragments \subseteq DOMAIN fragmentToFullDeps'
        /\ deferredFiles = << >> /\ deferredFiles' = << >>
        /\ ErrorWarnings(warnings') = {} ]_vars

\* analyzeDependencies was resolved, after content requests were made
C4_Witness == resolved = 1 /\ depEnded /\ Len(promises) = MaxLoads

(***************************************************************************)
(* C5: when the last pending fragment finishes analysis with n >= 1        *)
(* warnings of ERROR severity accumulated, one error carrying n is emitted *)
(* on both output streams, the dependencies stream is not ended, and       *)
(* analyzeDependencies is not resolved, then or later.                     *)
(***************************************************************************)
SeverityErrorEmitted ==
  \E i \in 1..Len(srcErrors) : srcErrors[i].kind = "Severity"

C5_SeverityErrorOnBothStreams ==
  [][ /\ ( /\ allFragmentsToAnalyze # {}
           /\ allFragmentsToAnalyze' = {}
           /\ ErrorWarnings(warnings') # {} ) =>
           LET e == SeverityError(Cardinality(ErrorWarnings(warnings')))
           IN /\ srcErrors' = Append(srcErrors, e)
              /\ depErrors' = Append(depErrors, e)
              /\ ~depEnded'
              /\ resolved' = 0
      /\ SeverityErrorEmitted => (~depEnded' /\ resolved' = 0) ]_vars

\* the run has failed with two errors counted, a third warning not counted
C5_Witness ==
  /\ SeverityError(2) \in RangeOf(srcErrors)
  /\ SeverityError(2) \in RangeOf(depErrors)
  /\ Cardinality(warnings) = 3

(***************************************************************************)
(* C6: when _done runs with no warning of ERROR severity and k >= 1        *)
(* pending futures, every one of the k ids is rejected with a not-found    *)
(* error, deferredFiles is left empty and analyzeDependencies is not       *)
(* resolved.                                                               *)
(***************************************************************************)
C6_DoneRejectsEveryPending ==
  [][ ( /\ doneCalls' = doneCalls + 1
        /\ ErrorWarnings(warnings') = {}
        /\ deferredFiles # << >> ) =>
        /\ deferredFiles' = << >>
        /\ \A i \in 1..Len(deferredFiles) :
             /\ promises'[deferredFiles[i].p].st = "rejected"
             /\ promises'[deferredFiles[i].p].err = NotFound(deferredFiles[i].url)
        /\ resolved' = 0 ]_vars

(***************************************************************************)
(* C7: an error is emitted on the sources output stream if and only if one *)
(* is emitted on the dependencies output stream: when the pipeline has no  *)
(* step left to take, either both streams have emitted an error or none.   *)
(***************************************************************************)
C7_ErrorsReachBothStreams ==
  (~ENABLED PipelineStep) => ((srcErrors # << >>) <=> (depErrors # << >>))

(***************************************************************************)
(* C8: onSourcesStreamComplete rejects every pending future of a declared  *)
(* source with a not-found error naming its id and removes it from         *)
(* deferredFiles, leaves every other pending future registered and         *)
(* unsettled, and sets sourceFilesLoaded.                                  *)
(***************************************************************************)
C8_SourcesEndRejectsMissingSources ==
  [][ (srcState = "open" /\ srcState' = "ended") =>
        /\ sourceFilesLoaded'
        /\ \A i \in 1..Len(deferredFiles) :
             LET e == deferredFiles[i] IN
             IF IsSource(e.url)
             THEN /\ promises'[e.p].st = "rejected"
                  /\ promises'[e.p].err = NotFound(e.url)
                  /\ ~HasDeferredFile(deferredFiles', e.url)
             ELSE /\ DeferredGet(deferredFiles', e.url) = e.p
                  /\ promises'[e.p] = promises[e.p]
                  /\ promises'[e.p].st = "pending" ]_vars

\* the enumeration has ended with a pending source rejected and a pending
\* dependency kept
C8_Witness ==
  /\ sourceFilesLoaded
  /\ doneCalls = 0
  /\ \E i \in 1..Len(promises) : promises[i].err = NotFound("c")
  /\ \E j \in 1..Len(promises) :
       /\ promises[j].url = "d"
       /\ promises[j].st = "pending"
       /\ DeferredGet(deferredFiles, "d") = j

C10_DuplicateRequestRejected ==
  [][ \A u \in Urls :
        ( /\ Len(promises') = Len(promises) + 1
          /\ promises'[Len(promises')].url = u
          /\ files[u] = NoFile
          /\ HasDeferredFile(deferredFiles, u) ) =>
          /\ promises'[Len(promises')].st = "rejected"
          /\ DeferredGet(deferredFiles', u) = DeferredGet(deferredFiles, u) ]_vars

(***************************************************************************)
(* C11: in every reachable state each id has at most one unsettled content *)
(* request, and every unsettled promise that load returned has its own     *)
(* callbacks registered in deferredFiles (so that it is settled, once,     *)
(* when the registered future is resolved or rejected).                    *)
(***************************************************************************)
C11_OnePendingFuturePerId ==
  /\ \A i, j \in 1..Len(promises) :
       ( /\ promises[i].st = "pending"
         /\ promises[j].st = "pending"
         /\ promises[i].url = promises[j].url ) => i = j
  /\ \A i \in 1..Len(promises) :
       promises[i].st = "pending" =>
         DeferredGet(deferredFiles, promises[i].url) = i

(***************************************************************************)
(* A content request, seen as a step: load(u) has returned a new promise.  *)
(***************************************************************************)
LoadReturned(u) ==
  /\ Len(promises') = Len(promises) + 1
  /\ promises'[Len(promises')].url = u
  /\ SubSeq(promises', 1, Len(promises)) = promises

\* the promise that load has returned in this step
Returned == promises'[Len(promises')]

\* every variable but promises
AllButPromises ==
  << onDisk, started, sourceFilesLoaded, files, warnings,
     allFragmentsToAnalyze, depsToFragments, fragmentToDeps,
     fragmentToFullDeps, resolved, deferredFiles, srcState, enumerated,
     analyzeQueue, cur, analyzeState, sourcesOut, srcErrors, depQueue,
     pushed, depEnded, depState, depsOut, depErrors, doneCalls,
     importFeatures, documentDeps, thrown >>

(***************************************************************************)
(* C12: a content request for an id that is in the File Store returns the  *)
(* stored contents in a promise that is resolved at once, and changes      *)
(* nothing else: no pending future is registered, nothing is pushed into   *)
(* the dependencies stream, the File Store is as it was; before the end    *)
(* of the source enumeration and after it.                                 *)
(***************************************************************************)
C12_StoredContentReturned ==
  [][ \A u \in Urls :
        (LoadReturned(u) /\ files[u] # NoFile) =>
          /\ Returned.st = "resolved"
          /\ Returned.val = files[u].contents
          /\ Returned.err = NoErr
          /\ UNCHANGED AllButPromises ]_vars

\* d was requested twice and pushed once: the second request found d in the
\* File Store, and both requests have its contents
C12_Witness ==
  /\ Len(promises) = 2
  /\ \A i \in 1..2 :
       /\ promises[i].url = "d"
       /\ promises[i].st = "resolved"
       /\ promises[i].val = DiskContent("d")
  /\ pushed = << "d" >>
  /\ files["d"] = ReadFile("d", 1)
  /\ deferredFiles = << >>

ResolveFileRan(u) ==
  \/ u \notin enumerated /\ enumerated' = enumerated \cup {u}
  \/ depsOut' = Append(depsOut, u)

C14_SecondArrivalKeepsFirstFile ==
  [][ \A u \in Urls :
        (ResolveFileRan(u) /\ files[u] # NoFile) => files' = files ]_vars

(***************************************************************************)
(* C15, as amended: addFile(file) called for an id that has a registered   *)
(* pending future puts the file into the File Store, in place of any file  *)
(* stored for the id, and does nothing else: the pending future stays      *)
(* registered in deferredFiles and its promise stays unsettled.            *)
(***************************************************************************)
\* addFile has stored a generated file for u in this step
AddFileRan(u) ==
  /\ files[u] # GeneratedFile(u)
  /\ files'[u] = GeneratedFile(u)

C15_AddFileOnlyStores ==
  [][ \A u \in Urls :
        (AddFileRan(u) /\ HasDeferredFile(deferredFiles, u)) =>
          /\ files' = [files EXCEPT ![u] = GeneratedFile(u)]
          /\ deferredFiles' = deferredFiles
          /\ promises' = promises
          /\ promises'[DeferredGet(deferredFiles, u)].st = "pending" ]_vars

\* the generated file of d is in the File Store and the request for d is
\* still registered and pending
C15_Witness ==
  /\ files["d"] = GeneratedFile("d")
  /\ HasDeferredFile(deferredFiles, "d")
  /\ promises[DeferredGet(deferredFiles, "d")].st = "pending"

(***************************************************************************)
(* C15, as stated: addFile(file) called for an id that has a registered    *)
(* pending future resolves that future with the contents of the file and   *)
(* removes it from deferredFiles.                                          *)
(***************************************************************************)
C15_AddFileResolvesPending ==
  [][ \A u \in Urls :
        (AddFileRan(u) /\ HasDeferredFile(deferredFiles, u)) =>
          /\ files'[u] = GeneratedFile(u)
          /\ promises'[DeferredGet(deferredFiles, u)].st = "resolved"
          /\ promises'[DeferredGet(deferredFiles, u)].val = "generated"
          /\ ~HasDeferredFile(deferredFiles', u) ]_vars

(***************************************************************************)
(* C16: _addDependencies(f, deps) for an id f that is not in               *)
(* allFragmentsToAnalyze (it never was a fragment, or its analysis is      *)
(* complete) throws an error that names f and leaves fragmentToFullDeps,   *)
(* fragmentToDeps and depsToFragments as they were.                        *)
(***************************************************************************)
C16_StrayUpdateFails ==
  [][ \A f \in Urls, fs \in FeatureLists :
        (AddDependenciesCall(f, fs) /\ f \notin allFragmentsToAnalyze) =>
          /\ thrown' = IncorrectlyCalled(f)
          /\ UNCHANGED << fragmentToFullDeps, fragmentToDeps,
                          depsToFragments, allFragmentsToAnalyze >> ]_vars

\* a was recorded and completed, and a second update for a was refused: the
\* index has what the first update put there
C16_Witness ==
  /\ thrown = IncorrectlyCalled("a")
  /\ "a" \notin allFragmentsToAnalyze
  /\ "a" \in DOMAIN fragmentToFullDeps
  /\ Len(depsToFragments["c"]) = 1

(***************************************************************************)
(* C20, as amended: for every list of reference features, each of the      *)
(* three lists that _getDependencies returns holds exactly the urls of the *)
(* resolvable features of its kind (html-import -> imports, html-script -> *)
(* scripts, html-style -> styles): a url that cannot be resolved and a     *)
(* feature of another kind add nothing; each list has no duplicates and    *)
(* is in the order of the first occurrences in the document. A url         *)
(* reported under two kinds is in both lists.                              *)
(***************************************************************************)
\* where in the document the first resolvable feature (u, t) is
FirstOccurrence(fs, u, t) ==
  CHOOSE i \in 1..Len(fs) :
    /\ fs[i] = Feature(u, t)
    /\ \A j \in 1..(i - 1) : fs[j] # Feature(u, t)

\* list is the list of the urls of the resolvable features of kind t in fs
IsListOfKind(list, fs, t) ==
  /\ RangeOf(list) =
       {fs[i].url : i \in {k \in 1..Len(fs) :
                             Resolvable(fs[k].url) /\ fs[k].type = t}}
  /\ \A i, j \in 1..Len(list) : list[i] = list[j] => i = j
  /\ \A i, j \in 1..Len(list) :
       i < j => FirstOccurrence(fs, list[i], t) < FirstOccurrence(fs, list[j], t)

C20_FeaturesClassifiedByKind ==
  documentDeps # << >> =>
    /\ IsListOfKind(documentDeps[1].imports, importFeatures, "html-import")
    /\ IsListOfKind(documentDeps[1].scripts, importFeatures, "html-script")
    /\ IsListOfKind(documentDeps[1].styles, importFeatures, "html-style")

\* a document with a repeated import, a second import and an external one:
\* two imports are returned, in document order
C20_Witness ==
  /\ importFeatures = << Feature("d", "html-import"),
                         Feature("d", "html-import"),
                         Feature("c", "html-import") >>
  /\ documentDeps = << DocumentDeps(<< "d", "c" >>, << >>, << >>) >>

(***************************************************************************)
(* C20, as stated: ... and the three lists are pairwise disjoint.          *)
(***************************************************************************)
C20_ListsPairwiseDisjoint ==
  documentDeps # << >> =>
    /\ IsListOfKind(documentDeps[1].imports, importFeatures, "html-import")
    /\ IsListOfKind(documentDeps[1].scripts, importFeatures, "html-script")
    /\ IsListOfKind(documentDeps[1].styles, importFeatures, "html-style")
    /\ RangeOf(documentDeps[1].imports) \cap RangeOf(documentDeps[1].scripts) = {}
    /\ RangeOf(documentDeps[1].imports) \cap RangeOf(documentDeps[1].styles) = {}
    /\ RangeOf(documentDeps[1].scripts) \cap RangeOf(documentDeps[1].styles) = {}

(***************************************************************************)
(* C17: the external analyzer is invoked at most once for each fragment in *)
(* a run; in a run that has succeeded every configured fragment was        *)
(* analyzed exactly once; and analyzeFile starts an analysis only for a    *)
(* fragment that is in allFragmentsToAnalyze.                              *)
(***************************************************************************)
\* how often f is in a list
CountIn(seq, f) == Cardinality({i \in 1..Len(seq) : seq[i] = f})

\* the errors with which an analysis of f has ended
FailuresOf(f) ==
  Cardinality({i \in 1..Len(srcErrors) :
                 /\ srcErrors[i].kind \in {"Analysis", "IncorrectlyCalled"}
                 /\ srcErrors[i].url = f})

\* how often analyzer.analyze([f]) was called: the analysis in flight, the
\* analyses that yielded the file, the analyses that failed
AnalysesOf(f) ==
  (IF cur = f THEN 1 ELSE 0) + CountIn(sourcesOut, f) + FailuresOf(f)

C17_FragmentAnalyzedOnce ==
  [][ /\ \A f \in Fragments : AnalysesOf(f)' <= 1
      /\ Succeeded' =>
           \A f \in Fragments :
             /\ AnalysesOf(f)' = 1
             /\ CountIn(sourcesOut', f) = 1
             /\ f \in DOMAIN fragmentToFullDeps'
      /\ (cur = None /\ cur' # None) =>
           /\ cur' \in allFragmentsToAnalyze
           /\ AnalysesOf(cur') = 0 ]_vars

\* the run has succeeded, each fragment analyzed once, with content
\* requests made on the way
C17_Witness ==
  /\ Succeeded
  /\ \A f \in Fragments : AnalysesOf(f) = 1
  /\ sourcesOut = << "a", "c", "b" >>
  /\ Len(promises) = MaxLoads

(***************************************************************************)
(* C18: when the analyzer produces no document for fragment f, the         *)
(* analysis of f fails with an error that names f and carries the          *)
(* analyzer's message ('unknown' for an empty one); the dependency index   *)
(* is unchanged and f stays in allFragmentsToAnalyze, and from then on     *)
(* analyzeDependencies is never resolved and the dependencies stream is    *)
(* never ended.                                                            *)
(***************************************************************************)
AnalysisHasFailed(errs) ==
  \E i \in 1..Len(errs) : errs[i].kind = "Analysis"

C18_FailedAnalysisBlocksSuccess ==
  [][ /\ (~AnalysisHasFailed(srcErrors) /\ AnalysisHasFailed(srcErrors')) =>
           LET e == srcErrors'[Len(srcErrors')]
           IN /\ srcErrors' = Append(srcErrors, e)
              /\ cur \in Fragments
              /\ e.url = cur
              /\ e.msg \in (AnalyzerMessages \ {""}) \cup {"unknown"}
              /\ cur \in allFragmentsToAnalyze'
              /\ UNCHANGED << fragmentToFullDeps, fragmentToDeps,
                              depsToFragments, allFragmentsToAnalyze >>
              /\ depErrors' = depErrors
              /\ ~Succeeded
      /\ AnalysisHasFailed(srcErrors') =>
           /\ resolved' = 0
           /\ ~depEnded'
           /\ allFragmentsToAnalyze' # {} ]_vars

\* the analysis of b has failed with the analyzer's message, after a was
\* recorded; b is still pending
C18_Witness ==
  /\ srcErrors = << AnalysisError("b", "parse error") >>
  /\ DOMAIN fragmentToFullDeps = {"a"}
  /\ allFragmentsToAnalyze = {"b"}
  /\ resolved = 0 /\ ~depEnded

(***************************************************************************)
(* C19: warnings below ERROR severity do not block completion: when the    *)
(* last pending fragment is recorded with no pending future registered     *)
(* and no accumulated warning of ERROR severity, however many warnings of  *)
(* lower severity there are, analyzeDependencies is resolved, the          *)
(* dependencies stream is ended and no error is emitted.                   *)
(***************************************************************************)
C19_LowSeverityDoesNotBlock ==
  [][ ( /\ allFragmentsToAnalyze # {}
        /\ allFragmentsToAnalyze' = {}
        /\ deferredFiles = << >>
        /\ ErrorWarnings(warnings') = {} ) =>
        /\ resolved = 0 /\ resolved' = 1
        /\ depEnded'
        /\ srcErrors' = srcErrors
        /\ depErrors' = depErrors ]_vars

\* the run has succeeded with two warnings of WARNING severity accumulated
C19_Witness ==
  /\ Succeeded
  /\ warnings = {W_wn, W_w2}
  /\ srcErrors = << >> /\ depErrors = << >>

Quiescent == ~ENABLED NextProject

\* the reverse lists when a is recorded first and b second
CanonicalDepsToFragments ==
  AddToDepsToFragments(
    AddToDepsToFragments([u \in Urls |-> << >>], "a", << "b", "d", "c" >>),
    "b", << "d" >>)

\* C22: for the one project (fragment a importing b and c, fragment b
\* importing d) and each disk, every order of enumeration, of content
\* requests and of analyses ends in the same outcome: success exactly when
\* every file is on disk, an error exactly when c or d is missing; and on
\* success fragmentToDeps and fragmentToFullDeps are the same maps and every
\* depsToFragments entry holds the same set as when a is recorded before b.
C22_OutcomeIndependentOfOrder ==
  Quiescent =>
    /\ Succeeded <=> onDisk = Urls
    /\ Failed <=> ("c" \notin onDisk \/ "d" \notin onDisk)
    /\ Succeeded =>
         /\ fragmentToDeps = ("a" :> << "b", "d", "c" >>) @@ ("b" :> << "d" >>)
         /\ fragmentToFullDeps =
              ("a" :> DocumentDeps(<< "b", "d", "c" >>, << >>, << >>))
                @@ ("b" :> DocumentDeps(<< "d" >>, << >>, << >>))
         /\ \A u \in Urls :
              RangeOf(depsToFragments[u]) = RangeOf(CanonicalDepsToFragments[u])

\* a run that succeeded although b was analyzed before a and c was enumerated
\* last of all
C22_Witness ==
  /\ Quiescent
  /\ Succeeded
  /\ Len(sourcesOut) = 3 /\ sourcesOut[1] = "b" /\ sourcesOut[3] = "c"

\* a content request for u is unsettled
PendingFor(u) ==
  \E i \in 1..Len(promises) :
    promises[i].url = u /\ promises[i].st = "pending"

C24_IndexFrozenAfterSuccess ==
  [][resolved > 0 =>
       UNCHANGED << fragmentToFullDeps, fragmentToDeps, depsToFragments >>]_vars

\* after the success _addDependencies was called for fragment a and threw,
\* and a generated file was put into the store
C24_Witness ==
  /\ resolved > 0
  /\ thrown = IncorrectlyCalled("a")
  /\ files["d"] = GeneratedFile("d")

\* C25 (as stated): _done runs at most once; once an error was emitted on an
\* output stream, no step ends _dependenciesStream or resolves
\* analyzeDependencies; once the run has succeeded, no step emits an error.
C25_OutcomesAreTerminal ==
  [][/\ doneCalls' <= 1
     /\ Failed => (resolved' = resolved /\ depEnded' = depEnded)
     /\ Succeeded => (srcErrors' = srcErrors /\ depErrors' = depErrors)]_vars

\* the ids whose content was requested and that are no declared sources
RequestedDependencies ==
  {promises[i].url : i \in {j \in 1..Len(promises) : ~IsSource(promises[j].url)}}

\* C26 (as stated): when a run has succeeded with no error emitted and no
\* step of the pipeline is left, the sources stream has yielded exactly the
\* enumerated declared sources, the dependencies stream exactly the
\* requested ids that are no declared sources, each file once, and no id on
\* both.
C26_OutputsPartitionLoadedFiles ==
  (Succeeded /\ ~Failed /\ ~ENABLED PipelineStep) =>
    /\ RangeOf(sourcesOut) = SourceFilesOnDisk
    /\ RangeOf(depsOut) = RequestedDependencies
    /\ \A u \in Urls : CountIn(sourcesOut, u) <= 1 /\ CountIn(depsOut, u) <= 1
    /\ RangeOf(sourcesOut) \cap RangeOf(depsOut) = {}

\* the report of the bundler, as a set
Reported == RangeOf(bundler.filesChanged[1])

\* the ids in the File Store
Stored == {u \in Urls : bundler.analyzerFiles[u] # NoFile}

\* the state of u in the bundler's file map is not what the File Store holds
DiffersFromStore(u) ==
  IF u \in Stored THEN bundler.files[u] # bundler.analyzerFiles[u].contents
  ELSE bundler.files[u] # Absent

\* C27 (as stated): the report contains exactly the ids of the File Store
\* whose content in the bundler's file map differs from the stored content,
\* and every id whose downstream state differs from the File Store is
\* reported.
C27_EveryDifferenceReported ==
  bundler.filesChanged # << >> =>
    /\ Reported =
         { Relative(u) : u \in {v \in Stored :
             bundler.files[v] # Absent
               /\ bundler.files[v] # bundler.analyzerFiles[v].contents} }
    /\ \A u \in Urls : DiffersFromStore(u) => Relative(u) \in Reported

\* C27: the report contains, each once and in the package-relative form,
\* exactly the ids that are in the File Store and in the bundler's file map
\* with different content; an id with equal content is not reported, and
\* neither is an id that only one of the two maps holds.
C27_ChangedFilesReported ==
  bundler.filesChanged # << >> =>
    /\ Reported =
         { Relative(u) : u \in {v \in Stored :
             bundler.files[v] # Absent
               /\ bundler.files[v] # bundler.analyzerFiles[v].contents} }
    /\ \A u \in Urls : CountIn(bundler.filesChanged[1], Relative(u)) <= 1
    /\ \A u \in Urls :
         (u \notin Stored \/ bundler.files[u] = Absent)
           => Relative(u) \notin Reported

\* a report over a store of a, b and c, where a was rewritten downstream, b
\* is unchanged and c is missing downstream, and d is downstream only
C27_Witness ==
  /\ bundler.filesChanged = << << Relative("a") >> >>
  /\ Stored = {"a", "b", "c"}
  /\ bundler.files["a"] = BuiltContent
  /\ bundler.files["b"] = DiskContent("b")
  /\ bundler.files["c"] = Absent
  /\ bundler.files["d"] = BuiltContent

\* the path, normalized to its platform, is the root or lies under it
InRoot(pl, s) ==
  LET n == PathNormalize(pl, s)
  IN n = Root(pl) \/ IsPrefix(Root(pl) \o << PathSep(pl) >>, n)

\* the path is that of a file or directory under the root
UnderRoot(pl, s) ==
  LET n == PathNormalize(pl, s)
  IN IsPrefix(Root(pl) \o << PathSep(pl) >>, n) /\ Len(n) > Len(Root(pl)) + 1

\* the two paths name one file
SameFile(pl, p, q) ==
  PathNormalize(pl, p \o << PathSep(pl) >>)
    = PathNormalize(pl, q \o << PathSep(pl) >>)

\* the url, decoded and normalized as a path, is the root or lies under it
UrlInRoot(u) ==
  LET n == PathNormalize("posix", DecodeUri(u))
  IN n = Root("posix") \/ IsPrefix(Root("posix") \o << Slash >>, n)

\* C28: urlFromPath fails for every path that is not contained in the root
\* directory, a sibling directory whose name begins with the name of the root
\* included, and getAbsoluteFilePath fails for every url that maps outside
\* the root.
C28_OutsideRootFails ==
  /\ (paths # << >> /\ paths.path # << >> /\ paths.url # << >>
        /\ ~InRoot(paths.platform, paths.path[1]))
       => paths.url[1].error = "PathEscapesRoot"
  /\ (paths # << >> /\ paths.path = << >> /\ paths.back # << >>
        /\ ~UrlInRoot(paths.resolved[1]))
       => paths.back[1].error = "PathEscapesRoot"

\* urlFromPath was called with the root /p and a path in the sibling /pp
C28_Witness ==
  /\ paths # << >>
  /\ paths.platform = "posix"
  /\ paths.path = << << Slash, "p", "p", Slash, "p" >> >>
  /\ paths.url = << Fail("PathEscapesRoot") >>

\* the path has only separators of its platform, no empty, "." or ".." name
\* and no trailing separator
IsPlain(pl, s) ==
  LET segs == Segments(pl, s)
  IN /\ \A i \in 1..Len(s) : IsPathSep(pl, s[i]) => s[i] = PathSep(pl)
     /\ \A k \in 2..Len(segs) :
          segs[k] \notin {<< >>, << "." >>, << ".", "." >>}

\* the url with path.sep for each of its separators
WithPathSep(pl, u) ==
  [i \in 1..Len(u) |-> IF u[i] = Slash THEN PathSep(pl) ELSE u[i]]

\* a path under the root went through urlFromPath, resolveUrl and
\* getAbsoluteFilePath
RoundTripDone ==
  /\ paths # << >>
  /\ paths.path # << >> /\ paths.url # << >> /\ paths.back # << >>
  /\ UnderRoot(paths.platform, paths.path[1])

\* C29 (as stated): for every path inside the root, however it is spelled,
\* converting it to an id and back returns the same path.
C29_RoundTripReturnsPath ==
  RoundTripDone => paths.back[1] = Ok(paths.path[1])

\* C29: for every path inside the root that is spelled plainly (separators
\* of the platform only, no empty, "." or ".." name, no trailing separator),
\* converting it to an id and back returns the same path: the id is the
\* root-relative path with / for separators and with spaces and the other
\* reserved characters percent-encoded, and the inverse decodes them and
\* uses the separators of the platform. A path spelled otherwise comes back
\* as a plain path.
C29_RoundTripOfPlainPath ==
  RoundTripDone =>
    LET pl == paths.platform
        url == paths.url[1].value
    IN /\ paths.url[1].error = None /\ paths.back[1].error = None
       /\ \A i \in 1..Len(url) : url[i] \notin {" ", Backslash}
       /\ IsPlain(pl, paths.back[1].value)
       /\ IsPlain(pl, paths.path[1]) =>
            /\ paths.back[1] = Ok(paths.path[1])
            /\ Root(pl) \o << PathSep(pl) >> \o WithPathSep(pl, DecodeUri(url))
                 = paths.path[1]

\* the plain posix path of the file "p " under the root went to the id with
\* %20 and came back
C29_Witness ==
  /\ RoundTripDone
  /\ paths.path = << << Slash, "p", Slash, "p", " " >> >>
  /\ paths.url = << Ok(<< "p", "%20" >>) >>
  /\ paths.back = << Ok(<< Slash, "p", Slash, "p", " " >>) >>

C31_StartAnalysisIdempotent ==
  /\ client.setUps = (IF client.calls > 0 THEN 1 ELSE 0)
  /\ started <=> client.calls > 0
  /\ client.gotSources \subseteq {1}
  /\ client.gotDependencies \subseteq {1}
  /\ client.calls = 0 =>
       /\ enumerated = {}
       /\ \A u \in Urls : files[u] = NoFile
       /\ promises = << >>
       /\ sourcesOut = << >>
       /\ depsOut = << >>

\* all the calls were made, of sources and of dependencies among them, while
\* the run went on: files were enumerated and a dependency was read
C31_Witness ==
  /\ client.calls = MaxCalls
  /\ client.gotSources = {1}
  /\ client.gotDependencies = {1}
  /\ enumerated # {}
  /\ depsOut # << >>

(***************************************************************************)
(* C32: the core never removes an entry from the File Store. In every step *)
(* of the build (the run of the analyzer, the input of the bundler, the    *)
(* bundling, which evicts the inlined ids from the file map of the         *)
(* bundler, the output of the bundler) every id that is in                 *)
(* BuildAnalyzer.files is still in it after the step.                      *)
(***************************************************************************)
C32_FileStoreNeverShrinks ==
  [][\A u \in Urls : files[u] # NoFile => files'[u] # NoFile]_vars

\* the bundler has evicted an id that its map held, and the File Store of the
\* analyzer holds the id
C32_Witness ==
  /\ bundler.phase \in {"yielding", "ended"}
  /\ \E u \in Urls :
       /\ u \in bundler.result[1].inlined
       /\ \E i \in 1..Len(bundler.received) : bundler.received[i].url = u
       /\ bundler.map.files[u] = NoFile
       /\ files[u] # NoFile

(***************************************************************************)
(* C33, as stated: in every reachable state no id is both in the File      *)
(* Store and in the pending table, for every interleaving of load,         *)
(* resolveFile, addFile, onSourcesStreamComplete and _done.                *)
(***************************************************************************)
C33_StoredIdNeverPending ==
  \A u \in Urls : files[u] # NoFile => ~HasDeferredFile(deferredFiles, u)

(***************************************************************************)
(* C33, amended: an id that is in the File Store is in the pending table   *)
(* only when the file stored for it is one that the side-channel addFile   *)
(* has stored; an id whose file came through resolveFile is never pending. *)
(***************************************************************************)
C33_ResolvedIdNeverPending ==
  \A u \in Urls :
    files[u] # NoFile /\ HasDeferredFile(deferredFiles, u)
      => files[u] = GeneratedFile(u)

\* resolveFile has stored the file of an id that was pending and resolved its
\* promise, while the generated file of another pending id was added
C33_Witness ==
  /\ \E i \in 1..Len(promises) :
       /\ promises[i].st = "resolved"
       /\ files[promises[i].url] = ReadFile(promises[i].url, 1)
       /\ ~HasDeferredFile(deferredFiles, promises[i].url)
  /\ \E u \in Generated :
       files[u] = GeneratedFile(u) /\ HasDeferredFile(deferredFiles, u)

(***************************************************************************)
(* C34: between the operations of a run the configured fragments are split *)
(* exactly into the pending set and the recorded set:                      *)
(* allFragmentsToAnalyze and the keys of fragmentToDeps are disjoint,      *)
(* their union is the initial fragment set, fragmentToDeps and             *)
(* fragmentToFullDeps have the same keys, and fragmentToDeps[f] is         *)
(* fragmentToFullDeps[f].imports for every recorded f.                     *)
(***************************************************************************)
C34_FragmentsSplitIntoPendingAndRecorded ==
  /\ allFragmentsToAnalyze \cap DOMAIN fragmentToDeps = {}
  /\ allFragmentsToAnalyze \cup DOMAIN fragmentToDeps = Fragments
  /\ DOMAIN fragmentToDeps = DOMAIN fragmentToFullDeps
  /\ \A f \in DOMAIN fragmentToDeps :
       fragmentToDeps[f] = fragmentToFullDeps[f].imports

\* one fragment is recorded with an import, the other is pending after its
\* analysis has failed
C34_Witness ==
  /\ allFragmentsToAnalyze # {}
  /\ \E f \in DOMAIN fragmentToDeps : fragmentToDeps[f] # << >>
  /\ srcErrors # << >>

(***************************************************************************)
(* C35: the dependencies stream is append-only until it is closed and is   *)
(* never written after it was closed. Every step keeps what was pushed and *)
(* only appends to it, and once _done has ended the stream no step makes a *)
(* push: nothing is appended, and the stream raises no push-after-end      *)
(* error.                                                                  *)
(***************************************************************************)
C35_ChannelNotWrittenAfterClose ==
  [][ /\ Len(pushed') >= Len(pushed)
      /\ SubSeq(pushed', 1, Len(pushed)) = pushed
      /\ depEnded =>
           /\ pushed' = pushed
           /\ \A i \in 1..Len(depErrors') :
                depErrors'[i].kind # PushAfterEnd(None).kind ]_vars

(***************************************************************************)
(* C36: the sources output keeps the order of enumeration and is gated by  *)
(* the analysis. The files the resolve stage has passed on stand in one    *)
(* line: those emitted, the fragment under analysis, those waiting. A step *)
(* only adds a file at the end of the line, unless an analysis fails and   *)
(* ends the stream, and the output only takes files from the head of the   *)
(* line, so files are emitted in the order in which they were received. A  *)
(* fragment is emitted only when the DependencyIndex has its record, and   *)
(* an analysis is started only when none is in flight.                     *)
(***************************************************************************)
LineUp ==
  sourcesOut \o (IF cur = None THEN << >> ELSE << cur >>) \o analyzeQueue

C36_SourcesInOrderAndGated ==
  [][ /\ IsPrefix(sourcesOut, sourcesOut')
      /\ IsPrefix(sourcesOut', LineUp)
      /\ IsPrefix(LineUp, LineUp') \/ analyzeState' = "failed"
      /\ analyzeState = "failed" => sourcesOut' = sourcesOut
      /\ \A i \in 1..Len(sourcesOut') :
           IsFragment(sourcesOut'[i]) =>
             /\ sourcesOut'[i] \in DOMAIN fragmentToFullDeps'
             /\ sourcesOut'[i] \in DOMAIN fragmentToDeps'
      /\ cur' # cur => cur = None \/ cur' = None ]_vars

\* three files were emitted, in an order of enumeration that is not the
\* order of their names, the fragments with their records
C36_Witness ==
  /\ sourcesOut = << "b", "c", "a" >>
  /\ {"a", "b"} \subseteq DOMAIN fragmentToFullDeps

(***************************************************************************)
(* C37: BuildBundler emits no file before its input has ended and the      *)
(* bundling has completed; it then emits each id that is left in its file  *)
(* map exactly once; and of several input files of one id only the last    *)
(* one received is emitted (unless a bundle document has taken its place). *)
(***************************************************************************)
LastReceived(u) ==
  LET is == {i \in 1..Len(bundler.received) : bundler.received[i].url = u}
  IN bundler.received[CHOOSE i \in is : \A j \in is : j <= i]

C37_EmitsAfterBundlingLastFileOnce ==
  /\ bundler.out # << >> =>
       /\ bundler.phase \in {"yielding", "ended"}
       /\ bundler.result # << >>
       /\ bundler.taken["sources"] = Len(sourcesOut)
       /\ bundler.taken["dependencies"] = Len(depsOut)
       /\ analyzeState = "ended" /\ depState = "ended"
  /\ Len(bundler.out) <= Len(bundler.map.keys)
  /\ \A i \in 1..Len(bundler.out) :
       /\ bundler.out[i].url = bundler.map.keys[i]
       /\ \A j \in 1..Len(bundler.out) : i # j => bundler.out[i].url # bundler.out[j].url
       /\ \/ bundler.out[i] = File(bundler.out[i].url, BundledContent, 0)
          \/ bundler.out[i] = LastReceived(bundler.out[i].url)
  /\ bundler.phase = "ended" =>
       /\ Len(bundler.out) = Len(bundler.map.keys)
       /\ \A u \in BundleUrls :
            bundler.map.files[u] # NoFile <=>
              \E i \in 1..Len(bundler.out) : bundler.out[i].url = u

\* the bundler has received two files of one id, the generated one first,
\* and has emitted every file of its map, the later of the two among them
C37_Witness ==
  /\ bundler.phase = "ended"
  /\ \E i, j \in 1..Len(bundler.received) :
       /\ i < j
       /\ bundler.received[i] = GeneratedFile("d")
       /\ bundler.received[j] = ReadFile("d", 1)
  /\ \E i \in 1..Len(bundler.out) : bundler.out[i] = ReadFile("d", 1)
  /\ Len(bundler.out) >= 3

(***************************************************************************)
(* C38: when the bundler has yielded its files, every bundle document that *)
(* the bundling returned was emitted with the bundled content, and no file *)
(* of another content for its id; and of the ids that the bundles list as  *)
(* inlined none is ever emitted but the ids of bundle documents.           *)
(***************************************************************************)
C38_BundlesEmittedInlinedFilesNot ==
  bundler.result # << >> =>
    LET documents == {bundler.result[1].documents[i] :
                        i \in 1..Len(bundler.result[1].documents)}
    IN /\ bundler.phase = "ended" =>
            \A u \in documents :
              \E i \in 1..Len(bundler.out) :
                bundler.out[i] = File(u, BundledContent, 0)
       /\ \A i \in 1..Len(bundler.out) :
            /\ bundler.out[i].url \in documents =>
                 bundler.out[i].contents = BundledContent
            /\ bundler.out[i].url \in bundler.result[1].inlined =>
                 bundler.out[i].url \in documents

\* the bundle of fragment b, which lists b and c as inlined, and a shared
\* bundle were returned; the input held b and c; b is emitted bundled, the
\* shared bundle is emitted, c is not
C38_Witness ==
  /\ bundler.phase = "ended"
  /\ bundler.result[1].documents = << "b", SharedBundle >>
  /\ {"b", "c"} \subseteq bundler.result[1].inlined
  /\ \E i, j \in 1..Len(bundler.received) :
       bundler.received[i].url = "b" /\ bundler.received[j].url = "c"
  /\ \E i, j \in 1..Len(bundler.out) :
       /\ bundler.out[i] = File("b", BundledContent, 0)
       /\ bundler.out[j] = File(SharedBundle, BundledContent, 0)
  /\ \A i \in 1..Len(bundler.out) : bundler.out[i].url # "c"

(***************************************************************************)
(* C39: whatever files pass through SourceDependenciesStream and whatever  *)
(* dependencies their documents have, each dependency path is pushed to    *)
(* the output at most once, and no path that matches a source glob is      *)
(* pushed.                                                                 *)
(***************************************************************************)
C39_DependencyPushedOnceNoSource ==
  /\ \A i, j \in 1..Len(depStream.out) :
       depStream.out[i] = depStream.out[j] => i = j
  /\ \A i \in 1..Len(depStream.out) : ~IsSource(depStream.out[i])

\* three files went through the stream, one of them a dependency that was
\* pushed before, and two dependencies were pushed
C39_Witness ==
  /\ Len(depStream.passed) >= 3
  /\ Len(depStream.out) = 2
  /\ \E i \in 1..Len(depStream.passed) :
       /\ depStream.passed[i] \in RangeOf(depStream.out)
       /\ \E j \in 1..Len(depStream.passed) : j < i /\ IsSource(depStream.passed[j])
  /\ depStream.file = None

(***************************************************************************)
(* C40, as stated: compileJavaScriptInHTML injects the RequireJS loader    *)
(* script at most once per document, only when transformModules is set and *)
(* the document has a type=module script, and places it immediately before *)
(* the first such module script (nothing but the line break of the         *)
(* injected fragment between them); when a JavaScript script of the        *)
(* document has the nomodule attribute the document is left unchanged.     *)
(***************************************************************************)
ModuleScripts(doc) ==
  {i \in 1..Len(doc) : IsJsScriptNode(doc[i]) /\ doc[i].type = "module"}

Loaders(doc) == {k \in 1..Len(doc) : doc[k] = RequireJsScript}

\* what stands between the loader and the first module script of the
\* document given, in the document left; 0 when the script is not there
BetweenLoaderAndModule(given, left) ==
  LET first == CHOOSE i \in ModuleScripts(given) :
                 \A j \in ModuleScripts(given) : i <= j
      k == CHOOSE l \in Loaders(left) : TRUE
      to == {m \in 1..Len(left) : left[m].from = first}
  IN IF to = {} THEN << 0 >>
     ELSE SubSeq(left, k + 1, (CHOOSE m \in to : TRUE) - 1)

LoaderInjectedRight(between) ==
  htmlDoc.result # << >> =>
    LET given == htmlDoc.doc
        left == htmlDoc.result[1].doc
    IN /\ Cardinality(Loaders(left)) <= 1
       /\ Loaders(left) # {} =>
            /\ htmlDoc.options.transformModules
            /\ ModuleScripts(given) # {}
            /\ RangeOf(BetweenLoaderAndModule(given, left)) \subseteq between
       /\ (\E i \in 1..Len(given) :
             IsJsScriptNode(given[i]) /\ given[i].nomodule)
            => left = given /\ ~htmlDoc.result[1].thrown

C40_LoaderImmediatelyBeforeModule == LoaderInjectedRight({NewLine})

(***************************************************************************)
(* C40, amended: the same, but between the loader and the first module     *)
(* script there may also stand the script that patches window.require,     *)
(* which the function puts right after the loader when the document loads  *)
(* Web Component Tester.                                                   *)
(***************************************************************************)
C40_LoaderBeforeFirstModule ==
  LoaderInjectedRight({NewLine, RequirePatchScript})

\* a document with a classic script, a module script and a second module
\* script was compiled with transformModules: one loader, before the first
\* module script
C40_Witness ==
  /\ htmlDoc.result # << >>
  /\ htmlDoc.options.transformModules
  /\ Cardinality(ModuleScripts(htmlDoc.doc)) = 2
  /\ ~IsJsScriptNode(htmlDoc.doc[1]) \/ htmlDoc.doc[1].type = None
  /\ Cardinality(Loaders(htmlDoc.result[1].doc)) = 1
  /\ BetweenLoaderAndModule(htmlDoc.doc, htmlDoc.result[1].doc) = << NewLine >>

=============================================================================
